---- MODULE Spec2Model ----
(***************************************************************************)
(* Model of the retry-driven fetch routines, the bulk sync runs and the    *)
(* GRACE month assignment of the data scripts:                             *)
(*   GSFC_grace_date.py   get_GSFC_grace_mascons, from_http, GSFC_grace_date*)
(*   podaac_grace_sync.py podaac_grace_sync, multiprocess_sync,            *)
(*                        http_pull_file                                   *)
(*   podaac_cumulus.py    podaac_cumulus, multiprocess_sync, http_pull_file *)
(***************************************************************************)
EXTENDS Integers, Sequences, FiniteSets, TLC

(***************************************************************************)
(* Bounds of the model                                                     *)
(***************************************************************************)
\* largest retry limit explored for a call that is given its RETRY
MaxRetry == 3

\* largest number of remote files of one sync run
MaxFiles == 2
\* largest number of worker processes of the pool
MaxProcesses == 2
\* largest retry limit of a sync run
MaxSyncRetry == 2

\* largest number of entries of the center list and the release list together
MaxRequested == 3
\* largest number of remote files the listings of one run report
MaxListed == 2

\* largest number of observation intervals of a mascon file
MaxObs == 4
\* month indices explored on each side of the special month
MonthsAround == 1
\* number of years explored from the epoch year on
MaxYears == 4

\* dates of the granules a product directory can hold
MaxDates == 3

(***************************************************************************)
(* Program constants                                                       *)
(***************************************************************************)
\* http_pull_file(..., RETRY=5, ...): the limit of a call that passes none
DefaultRetry == 5

(***************************************************************************)
(* Files on the local disk                                                 *)
(*   content: "absent" | "partial" (created or truncated by open('wb') and *)
(*            not completely written) | "complete"                         *)
(*   mtime:   "none" | "now" (time of the write) | a remote timestamp      *)
(*   mode:    "none" | "umask" (mode given at creation) | "MODE"           *)
(***************************************************************************)
\* last-modified timestamps a remote server reports
MTimes == {"lm1", "lm2"}

Absent == [content |-> "absent", mtime |-> "none", mode |-> "none"]

Synced(m) == [content |-> "complete", mtime |-> m, mode |-> "MODE"]

\* states a destination file can be in before a fetch is called
InitFiles == {Absent} \cup {Synced(m) : m \in MTimes}

\* ways a single transfer attempt can end
\*   open_fail: the request raised (network failure, timeout, HTTP 404)
\*   auth_fail: the server rejected the credentials (HTTP 401)
\*   copy_fail: the local file was opened and the copy of the body raised
\*   ok:        the body was copied completely
Outcomes == {"open_fail", "auth_fail", "copy_fail", "ok"}

\* open(local_file, 'wb'): creates the file or truncates an existing one
OpenWB(f) ==
    [content |-> "partial",
     mtime   |-> "now",
     mode    |-> IF f.content = "absent" THEN "umask" ELSE f.mode]

\* body of the try block of http_pull_file: urlopen, open('wb'), copyfileobj
TryPull(f, outcome) ==
    CASE outcome \in {"open_fail", "auth_fail"} -> f
      [] outcome = "copy_fail" -> OpenWB(f)
      [] outcome = "ok" -> [OpenWB(f) EXCEPT !.content = "complete"]

\* from_http: requests.get, last-modified header, open('wb'), write,
\* os.utime with the remote time, chmod
from_http(f, outcome, last_modified) ==
    CASE outcome \in {"open_fail", "auth_fail"} -> f
      [] outcome = "copy_fail" -> OpenWB(f)
      [] outcome = "ok" ->
            [content |-> "complete", mtime |-> last_modified, mode |-> "MODE"]

\* (mutation: the permissions are set, the modification time is not)
KeepTime_ChmodOnly(f, remote_mtime) == [f EXCEPT !.mode = "MODE"]

\* os.utime(local_file, (atime, remote_mtime)); os.chmod(local_file, MODE)
KeepTime(f, remote_mtime) == [f EXCEPT !.mtime = remote_mtime, !.mode = "MODE"]

(***************************************************************************)
(* One call of a retry-driven fetch                                        *)
(*   fn = "get_GSFC_grace_mascons" | "http_pull_file" (podaac_grace_sync)  *)
(*        | "http_pull_file_cumulus" (podaac_cumulus)                      *)
(***************************************************************************)
Functions == {"get_GSFC_grace_mascons", "http_pull_file", "http_pull_file_cumulus"}

\* the time.time() stamp podaac_cumulus takes before its auxiliary downloads
Stamp == "stamp"

\* places a fetch is called from: "granule" is the call for a data file of
\* the remote listing (in series or through multiprocess_sync, and main()
\* of GSFC_grace_date); "aux" is podaac_cumulus fetching TN-13 / TN-14
Sites(f) == IF f = "http_pull_file_cumulus" THEN {"granule", "aux"} ELSE {"granule"}

\* the retry limit in force at a call site: the auxiliary calls pass no RETRY
RetryAt(s, configured) == IF s = "aux" THEN DefaultRetry ELSE configured

\* the modification time handed to the fetch: the remote's for a granule,
\* mtime = time.time() for the auxiliary files
MtimeAt(s, reported) == IF s = "aux" THEN Stamp ELSE reported

VARIABLES
    fn,             \* the function called
    site,           \* where it is called from
    RETRY,          \* its retry limit
    last_modified,  \* modification time the remote reports for the file
    remote_mtime,   \* the remote_mtime argument (last-modified header in from_http)
    local,          \* the destination file
    local0,         \* the destination file before the call
    retry_counter,  \* the loop counter
    outcomes,       \* outcomes of the transfer attempts made so far
    pc              \* "start" | "loop" | "check" | "post" | "returned"
                    \* | "raised" (TimeoutError) | "crashed" (other exception)

fetchvars == <<fn, site, RETRY, last_modified, remote_mtime, local, local0,
               retry_counter, outcomes, pc>>

\* what no step of a call changes
fetchargs == <<fn, site, RETRY, last_modified, remote_mtime, local0>>

(***************************************************************************)
(* One or two consecutive runs of a bulk sync, podaac_grace_sync or        *)
(* podaac_cumulus, for one processing center and one release               *)
(***************************************************************************)
Scripts == {"podaac_grace_sync", "podaac_cumulus"}

\* local paths of data files, and of the auxiliary files of podaac_cumulus
Paths == {"p1", "p2"}

AuxPaths == {"TN-13", "TN-14"}

\* remote_files[i], remote_mtimes[i], local_files[i]: the remote file is
\* named by its position i, lfile is its local path (two files of a list
\* may have the same local path); the remote reports the same modification
\* time for every file of the list
Task == [mtime : {"lm1"}, lfile : Paths]

RECURSIVE SeqsUpTo(_, _)
SeqsUpTo(S, n) ==
    IF n = 0 THEN {<< >>}
    ELSE LET shorter == SeqsUpTo(S, n - 1)
         IN  shorter \cup {Append(q, x) : q \in {r \in shorter : Len(r) = n - 1}, x \in S}

VARIABLES
    script,         \* the script run
    PROCESSES,      \* 0: in series, > 0: size of the multiprocessing pool
    LOG,            \* TRUE: the run keeps a log file
    RETRY_sync,     \* RETRY of the run
    has_aux,        \* podaac_cumulus: cmr_metadata returned urls
    tasks,          \* the lists remote_files, remote_mtimes, local_files
    disk,           \* the local files
    run,            \* "first" | "second" consecutive run
    ppc,            \* position of the parent process
    wpc,            \* position of the call of each task
    retry_counters, \* retry_counter of the call of each task
    out,            \* result of each task: "none" | "output" | "None"
    log,            \* writes of the run to its log file, in order
    transfers,      \* completed transfers of the run
    index           \* index.txt has been written in this run

syncvars == <<script, PROCESSES, LOG, RETRY_sync, has_aux, tasks, disk, run, ppc,
              wpc, retry_counters, out, log, transfers, index>>

\* what no step of a run changes
syncargs == <<script, PROCESSES, LOG, RETRY_sync, has_aux, tasks>>

(***************************************************************************)
(* The listing of the remote files of a bulk sync run: from the requested  *)
(* centers and releases to the lists remote_files and local_files          *)
(***************************************************************************)
\* choices of --center (GFZ is listed as CSR is) and of --release (RL04 is
\* listed as RL05 is)
Centers == {"CSR", "JPL"}

Releases == {"RL05", "RL06"}

\* nargs='+': one or more entries, repeated entries are accepted
Requested(S) == SeqsUpTo(S, MaxRequested - 1) \ {<< >>}

HOST == "https://podaac-tools.jpl.nasa.gov"

DIRECTORY == "DIRECTORY"

DSET == "GSM"

\* what a remote directory can hold, in the order of a sorted listing:
\* the technical notes R1 matches, the year directories R2 matches, the
\* data files R1 matches
C20Notes == <<"TN-05_C20_SLR.txt", "TN-07_C20_SLR.txt", "TN-11_C20_SLR.txt">>

C30Notes == <<"TN-14_C30_C20_GSFC_SLR.txt">>

YearDirs == <<"2018", "2019">>

DataFiles == <<"GSM-2_A", "GSM-2_B">>

Missions == <<"grace", "grace-fo">>

Range(q) == {q[i] : i \in 1..Len(q)}

\* drive_list(PATH, ..., pattern, sort=True) and cmr(...): the entries the
\* remote reports among those the pattern matches, sorted by name
Listings(matched) ==
    {SelectSeq(matched, LAMBDA x : x \in S) : S \in SUBSET Range(matched)}

VARIABLES
    lscript,        \* the script that lists
    PROC,           \* the requested processing centers
    DREL,           \* the requested data releases
    GZIP,           \* podaac_cumulus: local files get the suffix .gz
    PATH,           \* podaac_grace_sync: the list PATH
    years,          \* the year directories still to list
    pr_i,           \* position of the loop over PROC
    rl_i,           \* position of the loop over the releases
    mi_i,           \* podaac_cumulus: position of the loop over the missions
    remote_files,   \* the list remote_files
    local_files,    \* the list local_files
    lpc             \* position of the listing

listvars == <<lscript, PROC, DREL, GZIP, PATH, years, pr_i, rl_i, mi_i,
              remote_files, local_files, lpc>>

listargs == <<lscript, PROC, DREL, GZIP>>

(***************************************************************************)
(* The month indices of the GSFC date table                                *)
(***************************************************************************)
VARIABLES
    grace_month,    \* 12*(YY - 2002) + MM of every observation interval
    adjusted,       \* the indices the correction pass has emitted
    rows,           \* the month column of the rows written to the table
    table,          \* the lines of the date file
    dpc             \* position of GSFC_grace_date

datevars == <<grace_month, adjusted, rows, table, dpc>>

(***************************************************************************)
(* One observation interval of the GSFC date table: its calendar dates,    *)
(* its days of the year, its month index and its total days                *)
(***************************************************************************)
VARIABLES
    start_yr, M1, D1,   \* calendar date of ref_days_first
    end_yr, M2, D2,     \* calendar date of ref_days_last
    YY, MM,             \* year and month of ref_days_middle
    start_day,          \* day of the year of the first day
    end_day,            \* day of the year of the last day
    mon,                \* grace_month of the observation, before correction
    dpy,                \* number of days in the year
    end_cyclic,         \* end day for data that crosses years
    count,              \* days of the years before the start year
    tot_days,           \* total days since Jan 2002: whole days and halves
    printed,            \* the Total_Days column of the row written
    calendar_year,      \* grace_months_html: year of the month index
    calendar_month,     \* grace_months_html: month of the month index
    opc                 \* position in the computation

obsargs == <<start_yr, M1, D1, end_yr, M2, D2, YY, MM>>

obsvars == <<obsargs, start_day, end_day, mon, dpy, end_cyclic, count, tot_days,
             printed, calendar_year, calendar_month, opc>>

(***************************************************************************)
(* The index of one product directory, written at the end of a sync run    *)
(***************************************************************************)
VARIABLES
    iscript,        \* the program that writes the index
    product,        \* pr, rl of the product directory
    product_dir,    \* the file names in DIRECTORY/pr/rl/DSET
    mission_i,      \* podaac_cumulus: position in ['grace','grace-fo']
    grace_files,    \* list of GRACE/GRACE-FO files for index
    index_txt,      \* the lines of index.txt
    ipc             \* position in the creation of the index

indexargs == <<iscript, product, product_dir>>

indexvars == <<indexargs, mission_i, grace_files, index_txt, ipc>>

(***************************************************************************)
(* The secrets file that get_podaac_webdav appends the credentials to      *)
(***************************************************************************)
VARIABLES
    USER,           \* username for NASA Earthdata Login
    PASSWORD,       \* password for NASA Earthdata Login
    WEBDAV,         \* the PO.DAAC drive password retrieved from the server
    NETRC,          \* the file at filepath/.netrc
    NETRC0,         \* that file before main ran
    npc             \* position in main

netrcargs == <<USER, PASSWORD, NETRC0>>

netrcvars == <<netrcargs, WEBDAV, NETRC, npc>>

(***************************************************************************)
(* The import of one GMT color palette table by read_cpt                   *)
(***************************************************************************)
VARIABLES
    file_contents,  \* the lines of the cpt file
    line_no,        \* the line the loop is at
    colorModel,     \* the color model found so far
    colors,         \* r, g, b: the color of each line read
    end_color,      \* r_end, g_end, b_end of the last line read
    cmap,           \* r, g, b after conversion
    cpc             \* position in read_cpt

cptvars == <<file_contents, line_no, colorModel, colors, end_color, cmap, cpc>>

(***************************************************************************)
(* The transfer of the example file from NSIDC and its validation          *)
(***************************************************************************)
VARIABLES
    remote_data,    \* the content of the remote file
    remote_xml,     \* the metadata file next to the remote file
    local_data,     \* the content of the local file
    local_hash,     \* the checksum calculated from the local file
    xpc             \* position in nasa_earthdata_nsidc_example

sumargs == <<remote_data, remote_xml>>

sumvars == <<sumargs, local_data, local_hash, xpc>>

vars == <<fetchvars, syncvars, listvars, datevars, obsvars, indexvars,
         netrcvars, cptvars, sumvars>>

\* what the steps of one component leave alone
beside_fetch ==
    <<syncvars, listvars, datevars, obsvars, indexvars,
      netrcvars, cptvars, sumvars>>

beside_sync ==
    <<fetchvars, listvars, datevars, obsvars, indexvars,
      netrcvars, cptvars, sumvars>>

beside_list ==
    <<fetchvars, syncvars, datevars, obsvars, indexvars,
      netrcvars, cptvars, sumvars>>

beside_date ==
    <<fetchvars, syncvars, listvars, obsvars, indexvars,
      netrcvars, cptvars, sumvars>>

beside_obs ==
    <<fetchvars, syncvars, listvars, datevars, indexvars,
      netrcvars, cptvars, sumvars>>

beside_index ==
    <<fetchvars, syncvars, listvars, datevars, obsvars,
      netrcvars, cptvars, sumvars>>

beside_netrc ==
    <<fetchvars, syncvars, listvars, datevars, obsvars, indexvars,
      cptvars, sumvars>>

beside_cpt ==
    <<fetchvars, syncvars, listvars, datevars, obsvars, indexvars,
      netrcvars, sumvars>>

beside_sum ==
    <<fetchvars, syncvars, listvars, datevars, obsvars, indexvars,
      netrcvars, cptvars>>

\* the other component is not running
FetchIdle ==
    /\ fn = "http_pull_file"
    /\ site = "granule"
    /\ RETRY = 0
    /\ last_modified = "lm1"
    /\ remote_mtime = "lm1"
    /\ local = Absent
    /\ local0 = Absent
    /\ retry_counter = 0
    /\ outcomes = << >>
    /\ pc = "idle"

SyncIdle ==
    /\ script = "podaac_grace_sync"
    /\ PROCESSES = 0
    /\ LOG = FALSE
    /\ RETRY_sync = 0
    /\ has_aux = FALSE
    /\ tasks = << >>
    /\ disk = [p \in Paths \cup AuxPaths |-> Absent]
    /\ run = "first"
    /\ ppc = "idle"
    /\ wpc = << >>
    /\ retry_counters = << >>
    /\ out = << >>
    /\ log = << >>
    /\ transfers = 0
    /\ index = FALSE

ListIdle ==
    /\ lscript = "podaac_grace_sync"
    /\ PROC = <<"CSR">>
    /\ DREL = <<"RL06">>
    /\ GZIP = FALSE
    /\ PATH = << >>
    /\ years = << >>
    /\ pr_i = 1
    /\ rl_i = 1
    /\ mi_i = 1
    /\ remote_files = << >>
    /\ local_files = << >>
    /\ lpc = "idle"

DateIdle ==
    /\ grace_month = << >>
    /\ adjusted = << >>
    /\ rows = << >>
    /\ table = << >>
    /\ dpc = "idle"

\* a result that has not been computed
IndexIdle ==
    /\ iscript = "podaac_grace_sync"
    /\ product = <<"GFZ", "RL05">>
    /\ product_dir = {}
    /\ mission_i = 1
    /\ grace_files = << >>
    /\ index_txt = << >>
    /\ ipc = "idle"

None == "None"

ObsIdle ==
    /\ start_yr = 2002 /\ M1 = 1 /\ D1 = 1
    /\ end_yr = 2002 /\ M2 = 1 /\ D2 = 1
    /\ YY = 2002 /\ MM = 1
    /\ start_day = None
    /\ end_day = None
    /\ mon = None
    /\ dpy = None
    /\ end_cyclic = None
    /\ count = None
    /\ tot_days = None
    /\ printed = None
    /\ calendar_year = None
    /\ calendar_month = None
    /\ opc = "idle"

\* no file at the path
NoFile == [exists |-> FALSE, lines |-> << >>, mode |-> "none"]

NetrcIdle ==
    /\ USER = ""
    /\ PASSWORD = ""
    /\ WEBDAV = None
    /\ NETRC = NoFile
    /\ NETRC0 = NoFile
    /\ npc = "idle"

CptIdle ==
    /\ file_contents = << >>
    /\ line_no = 1
    /\ colorModel = "unbound"
    /\ colors = << >>
    /\ end_color = << >>
    /\ cmap = << >>
    /\ cpc = "idle"

SumIdle ==
    /\ remote_data = "data1"
    /\ remote_xml = [DistributedFileName |-> "",
                     ChecksumType |-> "",
                     Checksum |-> ""]
    /\ local_data = "absent"
    /\ local_hash = None
    /\ xpc = "idle"

\* the components added last are not running
RestIdle == NetrcIdle /\ CptIdle /\ SumIdle

FetchInit ==
    /\ fn \in Functions
    /\ site \in Sites(fn)
    /\ \E configured \in -1..MaxRetry : RETRY = RetryAt(site, configured)
    /\ last_modified \in MTimes
    /\ remote_mtime = MtimeAt(site, last_modified)
    /\ local \in InitFiles
    /\ local0 = local
    /\ retry_counter = 0
    /\ outcomes = << >>
    /\ pc = "start"

\* (mutation: the local file is not looked at)
Skips_Never(f, file) == FALSE

\* if local.exists(): return, in get_GSFC_grace_mascons only
Skips(f, file) == f = "get_GSFC_grace_mascons" /\ file.content # "absent"

\* get_GSFC_grace_mascons returns at once when the local file exists;
\* http_pull_file has no such test
Enter ==
    /\ pc = "start"
    /\ pc' = IF Skips(fn, local) THEN "returned" ELSE "loop"
    /\ UNCHANGED <<fetchargs, local, retry_counter, outcomes, beside_fetch>>

\* (mutation: the increment also runs after a successful attempt)
CountAfter_Always(outcome, counter) == counter + 1

\* the counter after an attempt: the increment is skipped by return / break
CountAfter(outcome, counter) ==
    IF outcome = "ok" THEN counter ELSE counter + 1

\* (mutation: an authentication failure leaves the loop at once)
AfterAttempt_Classified(f, outcome) ==
    IF outcome = "auth_fail" THEN "crashed"
    ELSE IF outcome # "ok" THEN "loop"
    ELSE IF f = "get_GSFC_grace_mascons" THEN "returned" ELSE "check"

\* where control goes after an attempt
AfterAttempt(f, outcome) ==
    IF outcome # "ok" THEN "loop"
    ELSE IF f = "get_GSFC_grace_mascons" THEN "returned" ELSE "check"

\* (mutation: one attempt too many)
Retrying_Inclusive(counter, limit) == counter <= limit

\* while (retry_counter < RETRY)
Retrying(counter, limit) == counter < limit

\* one iteration of the loop: try ... except: pass / else: return or break
Attempt(outcome) ==
    /\ pc = "loop"
    /\ Retrying(retry_counter, RETRY)
    /\ local' = IF fn = "get_GSFC_grace_mascons"
                THEN from_http(local, outcome, remote_mtime)
                ELSE TryPull(local, outcome)
    /\ outcomes' = Append(outcomes, outcome)
    /\ retry_counter' = CountAfter(outcome, retry_counter)
    /\ pc' = AfterAttempt(fn, outcome)
    /\ UNCHANGED <<fetchargs, beside_fetch>>

\* the while condition fails
LoopExit ==
    /\ pc = "loop"
    /\ ~Retrying(retry_counter, RETRY)
    /\ pc' = "check"
    /\ UNCHANGED <<fetchargs, local, retry_counter, outcomes, beside_fetch>>

\* if (retry_counter == RETRY): raise TimeoutError
MaxRetries(counter, limit) == counter = limit

Check ==
    /\ pc = "check"
    /\ pc' = IF MaxRetries(retry_counter, RETRY) THEN "raised"
             ELSE IF fn = "get_GSFC_grace_mascons" THEN "returned" ELSE "post"
    /\ UNCHANGED <<fetchargs, local, retry_counter, outcomes, beside_fetch>>

\* http_pull_file: os.utime, chmod, return output
\* (os.stat raises FileNotFoundError when the file does not exist)
Post ==
    /\ pc = "post"
    /\ IF local.content = "absent"
       THEN pc' = "crashed" /\ local' = local
       ELSE pc' = "returned" /\ local' = KeepTime(local, remote_mtime)
    /\ UNCHANGED <<fetchargs, retry_counter, outcomes, beside_fetch>>

FetchNext ==
    \/ Enter
    \/ \E outcome \in Outcomes : Attempt(outcome)
    \/ LoopExit
    \/ Check
    \/ Post

(***************************************************************************)
(* The sync run                                                            *)
(***************************************************************************)
\* the possible ends of the retry loop of http_pull_file, from its head,
\* for a file no other process writes meanwhile
RECURSIVE PullLoop(_, _, _)
PullLoop(f, c, limit) ==
    IF Retrying(c, limit)
    THEN UNION {LET g == TryPull(f, o)
                    c2 == CountAfter(o, c)
                IN  IF AfterAttempt("http_pull_file", o) = "loop"
                    THEN PullLoop(g, c2, limit)
                    ELSE {[file |-> g, count |-> c2, transfers |-> 1]}
                : o \in Outcomes}
    ELSE {[file |-> f, count |-> c, transfers |-> 0]}

\* a whole call of http_pull_file made in series: how it can end and the
\* file it leaves
http_pull_file(f, limit, mtime) ==
    {IF MaxRetries(r.count, limit)
     THEN [end |-> "raised", file |-> r.file, transfers |-> r.transfers]
     ELSE IF r.file.content = "absent"
     THEN [end |-> "crashed", file |-> r.file, transfers |-> r.transfers]
     ELSE [end |-> "returned", file |-> KeepTime(r.file, mtime),
           transfers |-> r.transfers]
     : r \in PullLoop(f, 0, limit)}

\* a write to the log: who wrote, when, and what
\*   when: "serial" | "before" the pool exists | "running" pool | "after" join
Entry(by, when, what) == [by |-> by, when |-> when, what |-> what]

\* the file lists of a run: the paths are interchangeable, the path of the
\* first file is called p1
TaskLists == {q \in SeqsUpTo(Task, MaxFiles) : q # << >> => q[1].lfile = "p1"}

NTasks == Len(tasks)

SyncInit ==
    /\ script \in Scripts
    /\ PROCESSES \in 0..MaxProcesses
    /\ LOG \in BOOLEAN
    /\ RETRY_sync \in 1..MaxSyncRetry
    /\ has_aux \in IF script = "podaac_cumulus" THEN BOOLEAN ELSE {FALSE}
    /\ tasks \in TaskLists
    /\ disk = [p \in Paths \cup AuxPaths |-> Absent]
    /\ run = "first"
    /\ ppc = "start"
    /\ wpc = [i \in 1..Len(tasks) |-> "idle"]
    /\ retry_counters = [i \in 1..Len(tasks) |-> 0]
    /\ out = [i \in 1..Len(tasks) |-> "none"]
    /\ log = << >>
    /\ transfers = 0
    /\ index = FALSE

\* the lists of triples (remote_files[i], remote_mtimes[i], local_files[i])
\* in which the remote reports its own modification time for each file
TimedTask == [mtime : MTimes, lfile : Paths]

TimedTaskLists ==
    {q \in SeqsUpTo(TimedTask, MaxFiles) :
        q # << >> => (q[1].lfile = "p1" /\ q[1].mtime = "lm1")}

\* a sync run on such a list, with a retry limit of one attempt
ModesInit ==
    /\ script \in Scripts
    /\ PROCESSES \in 0..MaxProcesses
    /\ LOG \in BOOLEAN
    /\ RETRY_sync = 1
    /\ has_aux \in IF script = "podaac_cumulus" THEN BOOLEAN ELSE {FALSE}
    /\ tasks \in TimedTaskLists
    /\ disk = [p \in Paths \cup AuxPaths |-> Absent]
    /\ run = "first"
    /\ ppc = "start"
    /\ wpc = [i \in 1..Len(tasks) |-> "idle"]
    /\ retry_counters = [i \in 1..Len(tasks) |-> 0]
    /\ out = [i \in 1..Len(tasks) |-> "none"]
    /\ log = << >>
    /\ transfers = 0
    /\ index = FALSE

\* print(..., file=fid1) / logging.info(...) of the parent: it reaches the
\* log file when the run keeps one, the terminal otherwise
Logged(lg, entries) == IF lg THEN entries ELSE << >>

\* the parent opens the log and writes its header lines
Header ==
    /\ ppc = "start"
    /\ log' = log \o Logged(LOG, <<Entry("parent", "before", "header")>>)
    /\ ppc' = IF script = "podaac_cumulus" /\ has_aux THEN "TN-13" ELSE "sync"
    /\ UNCHANGED <<syncargs, disk, run, wpc, retry_counters, out, transfers, index,
                   beside_sync>>

\* podaac_cumulus: TN-13 then TN-14, in series, with mtime = time.time()
\* and the default RETRY; the returned output string is dropped
Aux ==
    /\ ppc \in AuxPaths
    /\ \E r \in http_pull_file(disk[ppc], RetryAt("aux", RETRY_sync),
                                MtimeAt("aux", "lm1")) :
          /\ disk' = [disk EXCEPT ![ppc] = r.file]
          /\ transfers' = transfers + r.transfers
          /\ ppc' = IF r.end # "returned" THEN "aborted"
                    ELSE IF ppc = "TN-13" THEN "TN-14" ELSE "sync"
    /\ UNCHANGED <<syncargs, run, wpc, retry_counters, out, log, index, beside_sync>>

\* (mutation: the exception of a call made in series is swallowed)
AfterSerial_Caught(end) == "sync"

\* where the parent goes after a call made in series: nothing catches the
\* exception of http_pull_file, which ends the run
AfterSerial(end) == IF end = "returned" THEN "sync" ELSE "aborted"

\* PROCESSES == 0: the next file of the list is pulled and its output printed
SerialPull ==
    /\ ppc = "sync"
    /\ PROCESSES = 0
    /\ \E i \in 1..NTasks :
          /\ wpc[i] = "idle"
          /\ \A j \in 1..(i - 1) : wpc[j] # "idle"
          /\ \E r \in http_pull_file(disk[tasks[i].lfile], RETRY_sync, tasks[i].mtime) :
                /\ disk' = [disk EXCEPT ![tasks[i].lfile] = r.file]
                /\ transfers' = transfers + r.transfers
                /\ ppc' = AfterSerial(r.end)
                /\ IF r.end = "returned"
                   THEN /\ wpc' = [wpc EXCEPT ![i] = "returned"]
                        /\ out' = [out EXCEPT ![i] = "output"]
                        /\ log' = log \o Logged(LOG, <<Entry("parent", "serial", "output")>>)
                   ELSE /\ wpc' = [wpc EXCEPT ![i] = "failed"]
                        /\ UNCHANGED <<out, log>>
    /\ UNCHANGED <<syncargs, run, retry_counters, index, beside_sync>>

SerialEnd ==
    /\ ppc = "sync"
    /\ PROCESSES = 0
    /\ \A i \in 1..NTasks : wpc[i] = "returned"
    /\ ppc' = "index"
    /\ UNCHANGED <<syncargs, disk, run, wpc, retry_counters, out, log, transfers,
                   index, beside_sync>>

\* PROCESSES > 0: mp.Pool, one apply_async per file, pool.close()
Submit ==
    /\ ppc = "sync"
    /\ PROCESSES > 0
    /\ wpc' = [i \in 1..NTasks |-> "queued"]
    /\ ppc' = "join"
    /\ UNCHANGED <<syncargs, disk, run, retry_counters, out, log, transfers, index,
                   beside_sync>>

Running == {i \in 1..NTasks : wpc[i] \in {"loop", "check", "post"}}

\* a free worker of the pool takes the next queued task
PoolStart(i) ==
    /\ ppc = "join"
    /\ wpc[i] = "queued"
    /\ \A j \in 1..(i - 1) : wpc[j] # "queued"
    /\ Cardinality(Running) < PROCESSES
    /\ wpc' = [wpc EXCEPT ![i] = "loop"]
    /\ UNCHANGED <<syncargs, disk, run, ppc, retry_counters, out, log, transfers,
                   index, beside_sync>>

\* one iteration of the loop of http_pull_file in a worker
PoolAttempt(i, outcome) ==
    /\ wpc[i] = "loop"
    /\ Retrying(retry_counters[i], RETRY_sync)
    /\ disk' = [disk EXCEPT ![tasks[i].lfile] = TryPull(@, outcome)]
    /\ retry_counters' = [retry_counters EXCEPT ![i] = CountAfter(outcome, @)]
    /\ wpc' = [wpc EXCEPT ![i] = AfterAttempt("http_pull_file", outcome)]
    /\ transfers' = IF outcome = "ok" THEN transfers + 1 ELSE transfers
    /\ UNCHANGED <<syncargs, run, ppc, out, log, index, beside_sync>>

\* the except branch of multiprocess_sync reports the failure itself.
\* podaac_grace_sync prints it to the terminal (print, traceback.print_exc).
\* podaac_cumulus calls logging.critical and logging.error in the worker:
\* they write to the log file of the parent when the worker has inherited
\* the handlers of the parent (start method fork), to the terminal when it
\* has not (spawn, forkserver)
WorkerLogs(sc, lg) ==
    IF sc = "podaac_cumulus" /\ lg
    THEN {<<Entry("worker", "running", "failed")>>, << >>}
    ELSE {<< >>}

\* multiprocess_sync catches the exception and returns None
Caught(i) ==
    /\ wpc' = [wpc EXCEPT ![i] = "failed"]
    /\ retry_counters' = [retry_counters EXCEPT ![i] = 0]
    /\ out' = [out EXCEPT ![i] = "None"]
    /\ \E written \in WorkerLogs(script, LOG) : log' = log \o written

\* the loop of a worker has ended, by break or by its condition:
\* if (retry_counter == RETRY): raise TimeoutError
PoolCheck(i) ==
    /\ \/ wpc[i] = "check"
       \/ wpc[i] = "loop" /\ ~Retrying(retry_counters[i], RETRY_sync)
    /\ IF MaxRetries(retry_counters[i], RETRY_sync)
       THEN Caught(i)
       ELSE wpc' = [wpc EXCEPT ![i] = "post"] /\ UNCHANGED <<retry_counters, out, log>>
    /\ UNCHANGED <<syncargs, disk, run, ppc, transfers, index, beside_sync>>

PoolPost(i) ==
    /\ wpc[i] = "post"
    /\ IF disk[tasks[i].lfile].content = "absent"
       THEN Caught(i) /\ disk' = disk
       ELSE /\ disk' = [disk EXCEPT ![tasks[i].lfile] = KeepTime(@, tasks[i].mtime)]
            /\ wpc' = [wpc EXCEPT ![i] = "returned"]
            /\ retry_counters' = [retry_counters EXCEPT ![i] = 0]
            /\ out' = [out EXCEPT ![i] = "output"]
            /\ log' = log
    /\ UNCHANGED <<syncargs, run, ppc, transfers, index, beside_sync>>

\* pool.join() returns when every task has ended; the parent then prints
\* output.get() of every task in the order of submission
Join ==
    /\ ppc = "join"
    /\ \A i \in 1..NTasks : wpc[i] \in {"returned", "failed"}
    /\ log' = log \o Logged(LOG, [i \in 1..NTasks |-> Entry("parent", "after", out[i])])
    /\ ppc' = "index"
    /\ UNCHANGED <<syncargs, disk, run, wpc, retry_counters, out, transfers, index,
                   beside_sync>>

\* index.txt of the product directory is written
Index ==
    /\ ppc = "index"
    /\ index' = TRUE
    /\ ppc' = "finalize"
    /\ UNCHANGED <<syncargs, disk, run, wpc, retry_counters, out, log, transfers,
                   beside_sync>>

\* the log is closed and given its mode; the run ends normally
Finalize ==
    /\ ppc = "finalize"
    /\ ppc' = "done"
    /\ UNCHANGED <<syncargs, disk, run, wpc, retry_counters, out, log, transfers,
                   index, beside_sync>>

\* the same run is started again on the files the first run left, against
\* the unchanged remote file set
Rerun ==
    /\ ppc = "done"
    /\ run = "first"
    /\ run' = "second"
    /\ ppc' = "start"
    /\ wpc' = [i \in 1..NTasks |-> "idle"]
    /\ retry_counters' = [i \in 1..NTasks |-> 0]
    /\ out' = [i \in 1..NTasks |-> "none"]
    /\ log' = << >>
    /\ transfers' = 0
    /\ index' = FALSE
    /\ UNCHANGED <<syncargs, disk, beside_sync>>

SyncNext ==
    \/ Header
    \/ Aux
    \/ SerialPull
    \/ SerialEnd
    \/ Submit
    \/ \E i \in 1..NTasks : PoolStart(i)
    \/ \E i \in 1..NTasks, outcome \in Outcomes : PoolAttempt(i, outcome)
    \/ \E i \in 1..NTasks : PoolCheck(i)
    \/ \E i \in 1..NTasks : PoolPost(i)
    \/ Join
    \/ Index
    \/ Finalize
    \/ Rerun

(***************************************************************************)
(* podaac_grace_sync and podaac_cumulus: building the lists of remote and  *)
(* local files, then handing them to the serial loop or to the pool        *)
(***************************************************************************)
ListInit ==
    /\ lscript \in Scripts
    /\ PROC \in Requested(Centers)
    /\ DREL \in Requested(Releases)
    /\ Len(PROC) + Len(DREL) <= MaxRequested
    /\ GZIP \in IF lscript = "podaac_cumulus" THEN BOOLEAN ELSE {FALSE}
    /\ PATH = << >>
    /\ years = << >>
    /\ pr_i = 1
    /\ rl_i = 1
    /\ mi_i = 1
    /\ remote_files = << >>
    /\ local_files = << >>
    /\ lpc = IF lscript = "podaac_grace_sync" THEN "docs_grace" ELSE "cmr"

\* PATH = [HOST,'drive','files','allData',mission]
MissionPath(mission) == <<HOST, "drive", "files", "allData", mission>>

\* JPL releases 4 and 5 are the remote directories RL04.1 and RL05.1
drel_str(pr, rl) ==
    IF pr = "JPL" /\ rl \in {"RL04", "RL05"}
    THEN (IF rl = "RL04" THEN "RL04.1" ELSE "RL05.1")
    ELSE rl

\* local directory for exact data product
LocalDir(pr, rl) == <<DIRECTORY, pr, rl, DSET>>

\* list.remove(x): removes the first item equal to x
RECURSIVE Remove(_, _)
Remove(q, x) ==
    IF q = << >> THEN << >>
    ELSE IF Head(q) = x THEN Tail(q)
    ELSE <<Head(q)>> \o Remove(Tail(q), x)

\* d for d in DREL if d not in ('RL04','RL05')
valid_gracefo_releases == SelectSeq(DREL, LAMBDA d : d \notin {"RL04", "RL05"})

\* the model follows a run while its lists hold at most MaxListed files
Fits(files) == Len(remote_files) + Len(files) <= MaxListed

\* remote_files.append(join(remote_dir, name)), local_files.append(
\* join(local_dir, name)) for each listed name
Gather(remote_dir, local_dir, files) ==
    /\ remote_files' = remote_files \o [i \in 1..Len(files) |-> Append(remote_dir, files[i])]
    /\ local_files' = local_files \o [i \in 1..Len(files) |-> Append(local_dir, files[i])]

\* SLR C2,0 coefficients: grace/docs
DocsGrace ==
    /\ lpc = "docs_grace"
    /\ PATH' = Append(MissionPath("grace"), "docs")
    /\ \E files \in Listings(C20Notes) :
          Fits(files) /\ Gather(PATH', <<DIRECTORY>>, files)
    /\ lpc' = "docs_gracefo"
    /\ UNCHANGED <<listargs, years, pr_i, rl_i, mi_i, beside_list>>

\* SLR C3,0 coefficients: gracefo/docs
DocsGraceFO ==
    /\ lpc = "docs_gracefo"
    /\ PATH' = Append(MissionPath("gracefo"), "docs")
    /\ \E files \in Listings(C30Notes) :
          Fits(files) /\ Gather(PATH', <<DIRECTORY>>, files)
    /\ lpc' = "grace"
    /\ UNCHANGED <<listargs, years, pr_i, rl_i, mi_i, beside_list>>

\* the end of one pass of "for rl in releases" inside "for pr in PROC":
\* the next release, the next center, or the section that follows
NextRelease(releases, section, following) ==
    IF rl_i < Len(releases)
    THEN rl_i' = rl_i + 1 /\ pr_i' = pr_i /\ lpc' = section
    ELSE IF pr_i < Len(PROC)
    THEN rl_i' = 1 /\ pr_i' = pr_i + 1 /\ lpc' = section
    ELSE rl_i' = 1 /\ pr_i' = 1 /\ lpc' = following

\* PATH is set anew for each center, and extended for each release
Extended(mission, pr, release) ==
    (IF rl_i = 1 THEN MissionPath(mission) ELSE PATH) \o <<"L2", pr, release>>

\* GRACE data: one pass of the loops over PROC and DREL
GraceRelease ==
    /\ lpc = "grace"
    /\ LET pr == PROC[pr_i]
           rl == DREL[rl_i]
       IN  /\ PATH' = Extended("grace", pr, drel_str(pr, rl))
           /\ \E files \in Listings(DataFiles) :
                 Fits(files) /\ Gather(PATH', LocalDir(pr, rl), files)
    /\ NextRelease(DREL, "grace", "gracefo")
    /\ UNCHANGED <<listargs, years, mi_i, beside_list>>

\* GRACE-FO data: no release of the request is a GRACE-FO release
NoGraceFO ==
    /\ lpc = "gracefo"
    /\ valid_gracefo_releases = << >>
    /\ PATH' = MissionPath("gracefo")
    /\ lpc' = "listed"
    /\ UNCHANGED <<listargs, years, pr_i, rl_i, mi_i, remote_files, local_files,
                   beside_list>>

\* GRACE-FO data: the year directories of one center and release
GraceFORelease ==
    /\ lpc = "gracefo"
    /\ valid_gracefo_releases # << >>
    /\ PATH' = Extended("gracefo", PROC[pr_i], valid_gracefo_releases[rl_i])
    /\ \E listed \in Listings(YearDirs) :
          /\ years' = listed
          /\ IF listed = << >>
             THEN NextRelease(valid_gracefo_releases, "gracefo", "listed")
             ELSE lpc' = "year" /\ UNCHANGED <<pr_i, rl_i>>
    /\ UNCHANGED <<listargs, mi_i, remote_files, local_files, beside_list>>

\* GRACE-FO data: the files of one year directory
GraceFOYear ==
    /\ lpc = "year"
    /\ LET pr == PROC[pr_i]
           rl == valid_gracefo_releases[rl_i]
           yr == Head(years)
           remote_dir == Append(PATH, yr)
       IN  /\ \E files \in Listings(DataFiles) :
                 Fits(files) /\ Gather(remote_dir, LocalDir(pr, rl), files)
           /\ PATH' = Remove(remote_dir, yr)
    /\ years' = Tail(years)
    /\ IF years' = << >>
       THEN NextRelease(valid_gracefo_releases, "gracefo", "listed")
       ELSE UNCHANGED <<pr_i, rl_i, lpc>>
    /\ UNCHANGED <<listargs, mi_i, beside_list>>

\* gravtk.utilities.url_split(url)[-1]
granule(url) == url[Len(url)]

\* suffix = '.gz' if GZIP else ''
suffix == IF GZIP THEN ".gz" ELSE ""

\* podaac_cumulus: one query of CMR, for a center, a release and a mission.
\* A url is the collection of the query followed by the granule; the local
\* file is local_dir.joinpath(granule + suffix)
Cmr ==
    /\ lpc = "cmr"
    /\ LET pr == PROC[pr_i]
           rl == DREL[rl_i]
           mi == Missions[mi_i]
       IN  \E ids \in Listings(DataFiles) :
              /\ Fits(ids)
              /\ LET urls == [i \in 1..Len(ids) |-> <<mi, pr, rl, ids[i]>>]
                 IN  /\ remote_files' = remote_files \o urls
                     /\ local_files' = local_files \o
                           [i \in 1..Len(urls) |->
                               LocalDir(pr, rl) \o <<granule(urls[i]), suffix>>]
    /\ IF mi_i < Len(Missions)
       THEN mi_i' = mi_i + 1 /\ UNCHANGED <<pr_i, rl_i, lpc>>
       ELSE mi_i' = 1 /\ NextRelease(DREL, "cmr", "listed")
    /\ UNCHANGED <<listargs, PATH, years, beside_list>>

\* a listing of the remote fails: the exception ends the run
ListError ==
    /\ lpc \in {"docs_grace", "docs_gracefo", "grace", "gracefo", "year", "cmr"}
    /\ lpc = "gracefo" => valid_gracefo_releases # << >>
    /\ lpc' = "raised"
    /\ UNCHANGED <<listargs, PATH, years, pr_i, rl_i, mi_i, remote_files,
                   local_files, beside_list>>

\* sync in series if PROCESSES = 0, else submit every file to the pool
Dispatch ==
    /\ lpc = "listed"
    /\ \E processes \in 0..MaxProcesses :
          lpc' = IF processes = 0 THEN "serial" ELSE "pool"
    /\ UNCHANGED <<listargs, PATH, years, pr_i, rl_i, mi_i, remote_files,
                   local_files, beside_list>>

ListNext ==
    \/ DocsGrace
    \/ DocsGraceFO
    \/ GraceRelease
    \/ NoGraceFO
    \/ GraceFORelease
    \/ GraceFOYear
    \/ Cmr
    \/ ListError
    \/ Dispatch

(***************************************************************************)
(* GSFC_grace_date: the month index of every observation interval, the     *)
(* correction of the special months, the month column of the date table    *)
(***************************************************************************)
\* the month index of the accelerometer shutoff that the correction knows
SpecialMonth == 160

MonthIndices == (SpecialMonth - MonthsAround)..(SpecialMonth + MonthsAround)

\* grace_month = 12*(YY - 2002) + MM, in the order of the file
DateInit ==
    /\ grace_month \in SeqsUpTo(MonthIndices, MaxObs) \ {<< >>}
    /\ adjusted = << >>
    /\ rows = << >>
    /\ table = << >>
    /\ dpc = "adjust"

\* one step of the correction pass, on a repeat of any index
adjust_step_AnyRepeat(previous, month) ==
    IF month = previous THEN month + 1 ELSE month

\* one step of the correction pass, on an index other than the special one
adjust_step_WrongIndex(previous, month) ==
    IF month = previous /\ month = SpecialMonth + 1 THEN month + 1 ELSE month

\* one step of the correction pass: an index that repeats the index emitted
\* before it and is the special index is incremented by one
adjust_step(previous, month) ==
    IF month = previous /\ month = SpecialMonth THEN month + 1 ELSE month

\* gravtk.time.adjust_months: a forward scan that carries the index it
\* emitted last; the first index has no predecessor
AdjustStep ==
    /\ dpc = "adjust"
    /\ Len(adjusted) < Len(grace_month)
    /\ LET t == Len(adjusted) + 1
       IN  adjusted' = Append(adjusted,
               IF t = 1 THEN grace_month[t]
               ELSE adjust_step(adjusted[t - 1], grace_month[t]))
    /\ UNCHANGED <<grace_month, rows, table, dpc, beside_date>>

\* grace_month = gravtk.time.adjust_months(grace_month)
AdjustReturn ==
    /\ dpc = "adjust"
    /\ Len(adjusted) = Len(grace_month)
    /\ dpc' = "header"
    /\ UNCHANGED <<grace_month, adjusted, rows, table, beside_date>>

\* the digits of a whole number
RECURSIVE digits(_)
digits(n) == IF n < 10 THEN <<n>> ELSE Append(digits(n \div 10), n % 10)

\* '{:03d}'.format(n): the digits, with zeros in front up to three digits
format_03d(n) ==
    LET d == digits(n)
    IN  [i \in 1..(3 - Len(d)) |-> 0] \o d

\* the line of the table for the observations in reverse order
Row_Reversed(t, months) ==
    [line    |-> "row",
     t       |-> Len(months) + 1 - t,
     columns |-> <<"tdec", "mon", "start_yr", "start_day", "end_yr", "end_day",
                   "tot_days">>,
     mon     |-> format_03d(months[Len(months) + 1 - t])]

\* the line of the table for observation t: the values of the observation
\* in the order of the format string, the month as three digits
Row(t, months) ==
    [line    |-> "row",
     t       |-> t,
     columns |-> <<"tdec", "mon", "start_yr", "start_day", "end_yr", "end_day",
                   "tot_days">>,
     mon     |-> format_03d(months[t])]

\* Output GRACE date ascii file: open(mode='w') and date file header
\* information
WriteHeader ==
    /\ dpc = "header"
    /\ table' = <<[line    |-> "header",
                   columns |-> <<"Mid-date", "Month", "Start_Day", "End_Day",
                                 "Total_Days">>]>>
    /\ dpc' = "table"
    /\ UNCHANGED <<grace_month, adjusted, rows, beside_date>>

\* for t,mon in enumerate(grace_month): print the row of the date table
WriteRow ==
    /\ dpc = "table"
    /\ Len(rows) < Len(adjusted)
    /\ rows' = Append(rows, adjusted[Len(rows) + 1])
    /\ table' = Append(table, Row(Len(rows) + 1, adjusted))
    /\ UNCHANGED <<grace_month, adjusted, dpc, beside_date>>

\* close date file
CloseTable ==
    /\ dpc = "table"
    /\ Len(rows) = Len(adjusted)
    /\ dpc' = "done"
    /\ UNCHANGED <<grace_month, adjusted, rows, table, beside_date>>

DateNext ==
    \/ AdjustStep
    \/ AdjustReturn
    \/ WriteHeader
    \/ WriteRow
    \/ CloseTable

(***************************************************************************)
(* GSFC_grace_date: the columns of the row of one observation interval,    *)
(* and the month name grace_months_html gives to its month index           *)
(***************************************************************************)
\* the year of the epoch: grace month 1 is January 2002
EpochYear == 2002

\* years about the next century year, where the calendar has no leap day
CenturyYears == {2099, 2100, 2101}

Years == EpochYear..(EpochYear + MaxYears - 1) \cup CenturyYears

\* days per month in a leap and a standard year
dpm_leap == <<31, 29, 31, 30, 31, 30, 31, 31, 30, 31, 30, 31>>

dpm_stnd == <<31, 28, 31, 30, 31, 30, 31, 31, 30, 31, 30, 31>>

RECURSIVE Sum(_)
Sum(q) == IF q = << >> THEN 0 ELSE Head(q) + Sum(Tail(q))

\* gravtk.time.calendar_days(year): the days of each month of the year
calendar_days(year) ==
    IF (year % 4 = 0 /\ year % 100 # 0) \/ year % 400 = 0
    THEN dpm_leap ELSE dpm_stnd

\* the days of the month of a calendar date that are explored
Days(year, m) == {1, 2, 15, calendar_days(year)[m]}

\* the table of a year, with the leap and the standard table exchanged
days_per_month_Swapped(year) == IF year % 4 = 0 THEN dpm_stnd ELSE dpm_leap

\* lp1 / sd1, lp2 / sd2: the table of a year, leap if (year % 4) == 0
days_per_month(year) == IF year % 4 = 0 THEN dpm_leap ELSE dpm_stnd

\* np.tri(12,12,0): the diagonal is set as well
mon_mat_Diagonal(i, j) == IF j <= i THEN 1 ELSE 0

\* mon_mat = np.tri(12,12,-1): matrix with the lower half = 1, rows and
\* columns counted from 0
mon_mat(i, j) == IF j < i THEN 1 ELSE 0

\* np.dot(mon_mat[i,:], dpm)
dot(i, dpm) == Sum([j \in 1..12 |-> mon_mat(i, j - 1) * dpm[j]])

\* mon_mat[i,:] of a matrix of 12 rows: an index from -12 to -1 counts from
\* the last row, any other index outside 0..11 raises IndexError
in_bounds_NoWrap(i) == i \in 0..11

in_bounds(i) == i \in -12..11

row(i) == IF i >= 0 THEN i ELSE i + 12

\* (D-1) + np.dot(mon_mat[M-1,:], dpm)
day_of_year(year, M, D) == (D - 1) + dot(row(M - 1), days_per_month(year))

\* month index of a calendar month that counts the months from 0
calendar_to_grace_ZeroBased(year, m) == 12 * (year - EpochYear) + m - 1

\* 12*(YY - 2002) + MM
calendar_to_grace(year, m) == 12 * (year - EpochYear) + m

\* the number of days of the end year
dpy_of_EndYear(first_year, last_year) == Sum(calendar_days(last_year))

\* dpy = gravtk.time.calendar_days(start_yr[t]).sum()
dpy_of(first_year, last_year) == Sum(calendar_days(first_year))

\* the days of the years from 2002 up to and including the file year
RECURSIVE prior_days_Inclusive(_)
prior_days_Inclusive(n_yrs) ==
    IF n_yrs < 0 THEN 0
    ELSE prior_days_Inclusive(n_yrs - 1) + Sum(calendar_days(EpochYear + n_yrs))

\* for iyr in range(n_yrs): count += calendar_days(2002 + iyr).sum()
RECURSIVE prior_days(_)
prior_days(n_yrs) ==
    IF n_yrs <= 0 THEN 0
    ELSE prior_days(n_yrs - 1) + Sum(calendar_days(EpochYear + n_yrs - 1))

\* np.mean([a, b]): the whole days and whether half a day is added
mean(a, b) == [whole |-> (a + b) \div 2, half |-> (a + b) % 2]

\* '{:8.0f}'.format(x): the nearest whole number, a half goes to the even one
format_8_0f(x) ==
    IF x.half = 1 /\ x.whole % 2 = 1 THEN x.whole + 1 ELSE x.whole

\* 2002 + m//12
year_of_month_Unshifted(m) == EpochYear + m \div 12

\* calendar_year = 2002 + (m-1)//12
year_of_month(m) == EpochYear + (m - 1) \div 12

\* calendar_month = (m-1) % 12 + 1
month_of_month(m) == ((m - 1) % 12) + 1

\* the calendar months an interval that starts in a month can end in: the
\* same month or the month that follows it
NextMonth(year, m) == IF m = 12 THEN <<year + 1, 1>> ELSE <<year, m + 1>>

\* an observation interval of the file: it starts on a calendar date, ends
\* on a later date of the same or of the following month, and its middle
\* date is in one of the two months
ObsInit ==
    /\ start_yr \in Years
    /\ M1 \in 1..12
    /\ D1 \in Days(start_yr, M1)
    /\ \E last \in {<<start_yr, M1>>, NextMonth(start_yr, M1)} :
           end_yr = last[1] /\ M2 = last[2]
    /\ D2 \in Days(end_yr, M2)
    /\ (M2 = M1) => D1 <= D2
    /\ \E middle \in {<<start_yr, M1>>, <<end_yr, M2>>} :
           YY = middle[1] /\ MM = middle[2]
    /\ start_day = None
    /\ end_day = None
    /\ mon = None
    /\ dpy = None
    /\ end_cyclic = None
    /\ count = None
    /\ tot_days = None
    /\ printed = None
    /\ calendar_year = None
    /\ calendar_month = None
    /\ opc = "dates"

\* the months and days that are no calendar date
AnyMonths == -13..14

AnyDays == 0..32

\* a date as no conversion from Julian days yields it: any month and day,
\* taken as the first, the middle and the last date of the interval
AnyDateInit ==
    /\ start_yr \in Years
    /\ M1 \in AnyMonths
    /\ D1 \in AnyDays
    /\ end_yr = start_yr /\ M2 = M1 /\ D2 = D1
    /\ YY = start_yr /\ MM = M1
    /\ start_day = None
    /\ end_day = None
    /\ mon = None
    /\ dpy = None
    /\ end_cyclic = None
    /\ count = None
    /\ tot_days = None
    /\ printed = None
    /\ calendar_year = None
    /\ calendar_month = None
    /\ opc = "dates"

\* create day of year variables: the start day with the table of the start
\* year, the end day with the table of the end year
DayOfYear ==
    /\ opc = "dates"
    /\ IF in_bounds(M1 - 1) /\ in_bounds(M2 - 1)
       THEN /\ start_day' = day_of_year(start_yr, M1, D1)
            /\ end_day' = day_of_year(end_yr, M2, D2)
            /\ opc' = "month"
       ELSE /\ opc' = "IndexError"
            /\ UNCHANGED <<start_day, end_day>>
    /\ UNCHANGED <<obsargs, mon, dpy, end_cyclic, count, tot_days, printed,
                   calendar_year, calendar_month, beside_obs>>

\* calculate the GRACE month (Apr02 == 004) of the middle date
GraceMonth ==
    /\ opc = "month"
    /\ mon' = calendar_to_grace(YY, MM)
    /\ opc' = "cyclic"
    /\ UNCHANGED <<obsargs, start_day, end_day, dpy, end_cyclic, count, tot_days,
                   printed, calendar_year, calendar_month, beside_obs>>

\* number of days in the year; for data that crosses years
YearCrossing ==
    /\ opc = "cyclic"
    /\ dpy' = dpy_of(start_yr, end_yr)
    /\ end_cyclic' = (end_yr - start_yr) * dpy' + end_day
    /\ opc' = "count"
    /\ UNCHANGED <<obsargs, start_day, end_day, mon, count, tot_days,
                   printed, calendar_year, calendar_month, beside_obs>>

\* for each of the GRACE years up to the file year
PriorYears ==
    /\ opc = "count"
    /\ count' = prior_days(start_yr - EpochYear)
    /\ opc' = "mean"
    /\ UNCHANGED <<obsargs, start_day, end_day, mon, dpy, end_cyclic, tot_days,
                   printed, calendar_year, calendar_month, beside_obs>>

\* calculating the total number of days since 2002
TotalDays ==
    /\ opc = "mean"
    /\ tot_days' = mean(count + start_day, count + end_cyclic)
    /\ printed' = format_8_0f(tot_days')
    /\ opc' = "row"
    /\ UNCHANGED <<obsargs, start_day, end_day, mon, dpy, end_cyclic, count,
                   calendar_year, calendar_month, beside_obs>>

\* grace_months_html, for m in range(4, max_mon+1): finding the month name
\* of the month index; the months before April 2002 get no line
MonthName ==
    /\ opc = "row"
    /\ IF mon >= 4
       THEN /\ calendar_year' = year_of_month(mon)
            /\ calendar_month' = month_of_month(mon)
            /\ opc' = "named"
       ELSE /\ opc' = "unnamed"
            /\ UNCHANGED <<calendar_year, calendar_month>>
    /\ UNCHANGED <<obsargs, start_day, end_day, mon, dpy, end_cyclic, count,
                   tot_days, printed, beside_obs>>

ObsNext ==
    \/ DayOfYear
    \/ GraceMonth
    \/ YearCrossing
    \/ PriorYears
    \/ TotalDays
    \/ MonthName

(***************************************************************************)
(* podaac_grace_sync, podaac_cumulus: the index file of a product          *)
(***************************************************************************)
\* the products whose directory is indexed
Products == {<<"GFZ", "RL04">>, <<"GFZ", "RL05">>, <<"GFZ", "RL06">>}

\* the part of a file name that tells the solutions of one center apart:
\* the monthly degree 60 (BA01) products of RL06, the unconstrained (G---)
\* and the regularized (GK2-) fields of RL04 and RL05, in string order
Solutions == <<"BA01", "G---", "GK2-">>

\* the dates of the GRACE granules and of the GRACE-FO granules
GraceDates == 1..(MaxDates - 1)

GraceFODates == {MaxDates}

\* a file name GSM-2_<date>_..._<solution>_<release>.gz
Names == [date : GraceDates \cup GraceFODates, solution : Range(Solutions)]

\* the mission (GRAC or GRFO) of a file name
mission_of(name) == IF name.date \in GraceDates THEN "GRAC" ELSE "GRFO"

\* shortname = {'grace':'GRAC', 'grace-fo':'GRFO'}
shortname(mi) == IF mi = "grace" THEN "GRAC" ELSE "GRFO"

\* compile_regex_pattern(PROC, DREL, DSET): the file names that match
compile_regex_pattern(pr, rl) ==
    IF pr = "GFZ" /\ rl = "RL04"
    THEN {n \in Names : n.solution = "G---"}
    ELSE IF pr = "GFZ" /\ rl = "RL05"
    THEN {n \in Names : n.solution \in {"G---", "GK2-"}}
    ELSE {n \in Names : n.solution = "BA01"}

\* gravtk.utilities.compile_regex_pattern(pr, rl, DSET, mission=...)
compile_regex_pattern_mission(pr, rl, mi) ==
    {n \in compile_regex_pattern(pr, rl) : mission_of(n) = shortname(mi)}

\* the order of two file names as strings: by date, then by solution
Position(sol) == CHOOSE i \in 1..Len(Solutions) : Solutions[i] = sol

Before(a, b) ==
    \/ a.date < b.date
    \/ a.date = b.date /\ Position(a.solution) < Position(b.solution)

\* sorted(...) of a collection of distinct file names
RECURSIVE sorted(_)
sorted(S) ==
    IF S = {} THEN << >>
    ELSE LET first == CHOOSE a \in S : \A b \in S \ {a} : Before(a, b)
         IN  <<first>> \o sorted(S \ {first})

\* the sorted names, last name first
RECURSIVE reversed(_)
reversed(q) == IF q = << >> THEN << >> ELSE Append(reversed(Tail(q)), Head(q))

\* gravtk.time.reduce_by_date(granules): one file name for each date, the
\* last of the sorted names of that date
reduce_by_date(granules) ==
    sorted({n \in Range(granules) :
                \A o \in Range(granules) :
                    o.date = n.date => (o = n \/ Before(o, n))})

\* the product directory after the sync: any files of the product, from
\* this run and from runs before it
IndexInit ==
    /\ iscript \in {"podaac_grace_sync", "podaac_cumulus"}
    /\ product \in Products
    /\ product_dir \in SUBSET Names
    /\ mission_i = 1
    /\ grace_files = << >>
    /\ index_txt = << >>
    /\ ipc = "list"

\* podaac_grace_sync: find local GRACE files to create index; os.listdir
\* gives the names in any order, of which the sorted one and its reverse
\* are explored
ListDir ==
    /\ ipc = "list"
    /\ iscript = "podaac_grace_sync"
    /\ LET found == product_dir \cap compile_regex_pattern(product[1], product[2])
       IN  grace_files' \in {sorted(found), reversed(sorted(found))}
    /\ ipc' = "write"
    /\ UNCHANGED <<indexargs, mission_i, index_txt, beside_index>>

\* podaac_cumulus, for each satellite mission: find the local files, reduce
\* them to unique dates and extend the list with them
Granules ==
    /\ ipc = "list"
    /\ iscript = "podaac_cumulus"
    /\ LET mi == Missions[mission_i]
           granules == sorted(product_dir \cap
               compile_regex_pattern_mission(product[1], product[2], mi))
       IN  grace_files' = grace_files \o reduce_by_date(granules)
    /\ mission_i' = mission_i + 1
    /\ ipc' = IF mission_i = Len(Missions) THEN "write" ELSE "list"
    /\ UNCHANGED <<indexargs, index_txt, beside_index>>

\* outputting GRACE/GRACE-FO filenames to index
WriteIndex ==
    /\ ipc = "write"
    /\ index_txt' = sorted(Range(grace_files))
    /\ ipc' = "done"
    /\ UNCHANGED <<indexargs, mission_i, grace_files, beside_index>>

IndexNext ==
    \/ ListDir
    \/ Granules
    \/ WriteIndex

(***************************************************************************)
(* get_podaac_webdav: main appends the credentials to the .netrc file      *)
(***************************************************************************)
MaxLines == 2

Users == {"user1", "user2"}

Passwords == {"pass1"}

\* the passwords the PO.DAAC drive page can show
WebdavPasswords == {"webdav1", "webdav2"}

\* 'machine {0} login {1} password {2}\n'
netrc_format(machine, login, password) ==
    [machine |-> machine, login |-> login, password |-> password]

\* the lines a secrets file can hold before the program runs
OldLines ==
    { netrc_format("urs.earthdata.nasa.gov", "user1", "pass1"),
      netrc_format("example.com", "other", "secret") }

\* permissions of a file: of a new file, and owner-only
Modes == {"0644", "0600"}

NetrcFiles ==
    {NoFile} \cup
    { [exists |-> TRUE, lines |-> l, mode |-> m] :
          l \in SeqsUpTo(OldLines, MaxLines), m \in Modes }

\* (mutation: the file is opened for writing, which truncates it)
open_a_Truncating(file) ==
    [exists |-> TRUE,
     lines |-> << >>,
     mode |-> IF file.exists THEN file.mode ELSE "0644"]

\* open(NETRC,'a+'): the file is created if it is missing and written at
\* its end
open_a(file) ==
    [exists |-> TRUE,
     lines |-> IF file.exists THEN file.lines ELSE << >>,
     mode |-> IF file.exists THEN file.mode ELSE "0644"]

\* f.write(line)
write(file, text) == [file EXCEPT !.lines = Append(@, text)]

\* os.chmod(NETRC, mode)
chmod(file, mode) == [file EXCEPT !.mode = mode]

NetrcInit ==
    /\ USER \in Users
    /\ PASSWORD \in Passwords
    /\ WEBDAV = None
    /\ NETRC0 \in NetrcFiles
    /\ NETRC = NETRC0
    /\ npc = "start"

\* if check_connection(): the check returns True or raises RuntimeError
CheckConnection ==
    /\ npc = "start"
    /\ \E connected \in BOOLEAN :
          npc' = IF connected THEN "webdav" ELSE "RuntimeError"
    /\ UNCHANGED <<netrcargs, WEBDAV, NETRC, beside_netrc>>

\* WEBDAV,cookie_jar = podaac_webdav(USER, PASSWORD, parser): the password
\* on the drive page, or an exception of the request or of the parsing
RetrieveWebdav ==
    /\ npc = "webdav"
    /\ \/ \E password \in WebdavPasswords :
             /\ WEBDAV' = password
             /\ npc' = "open"
       \/ /\ WEBDAV' = WEBDAV
          /\ npc' = "raised"
    /\ UNCHANGED <<netrcargs, NETRC, beside_netrc>>

\* with open(NETRC,'a+') as f:
OpenNetrc ==
    /\ npc = "open"
    /\ NETRC' = open_a(NETRC)
    /\ npc' = "earthdata"
    /\ UNCHANGED <<netrcargs, WEBDAV, beside_netrc>>

\* NASA Earthdata credentials
WriteEarthdata ==
    /\ npc = "earthdata"
    /\ NETRC' = write(NETRC,
                      netrc_format("urs.earthdata.nasa.gov", USER, PASSWORD))
    /\ npc' = "podaac"
    /\ UNCHANGED <<netrcargs, WEBDAV, beside_netrc>>

\* JPL PO.DAAC drive credentials
WritePodaac ==
    /\ npc = "podaac"
    /\ NETRC' = write(NETRC,
                      netrc_format("podaac-tools.jpl.nasa.gov", USER, WEBDAV))
    /\ npc' = "chmod"
    /\ UNCHANGED <<netrcargs, WEBDAV, beside_netrc>>

\* os.chmod(NETRC, 0o600), then the file is closed
Chmod ==
    /\ npc = "chmod"
    /\ NETRC' = chmod(NETRC, "0600")
    /\ npc' = "done"
    /\ UNCHANGED <<netrcargs, WEBDAV, beside_netrc>>

NetrcNext ==
    \/ CheckConnection
    \/ RetrieveWebdav
    \/ OpenNetrc
    \/ WriteEarthdata
    \/ WritePodaac
    \/ Chmod

(***************************************************************************)
(* read_cpt: the color model of a GMT color palette table                  *)
(***************************************************************************)
MaxCptLines == 3

\* a commented line: model is the word after COLOR_MODEL, "" without one
comment_line(model) ==
    [hash |-> TRUE, model |-> model, color |-> << >>, to |-> << >>]

\* a line of eight numbers: x, r, g, b of its start and of its end
color_line(color, to) ==
    [hash |-> FALSE, model |-> "", color |-> color, to |-> to]

\* hues of whole sextants with saturation and value 0 or 1, which are also
\* red, green and blue levels within 0..255
CptLines ==
    { comment_line("HSV"), comment_line("RGB"), comment_line(""),
      color_line(<<0, 1, 1>>, <<120, 1, 1>>),
      color_line(<<240, 1, 1>>, <<60, 0, 1>>) }

CptFiles == SeqsUpTo(CptLines, MaxCptLines)

\* colorsys.hsv_to_rgb(r[i]/360.,g[i],b[i]) for a hue of whole sextants:
\* f = 0, so q = v and t = p; a level is a fraction <<numerator, denominator>>
hsv_to_rgb(c) ==
    LET h == (c[1] \div 60) % 6
        sat == c[2]
        val == c[3]
        lo == val * (1 - sat)
        level(n) == <<n, 1>>
    IN  IF sat = 0 THEN <<level(val), level(val), level(val)>>
        ELSE CASE h = 0 -> <<level(val), level(lo), level(lo)>>
               [] h = 1 -> <<level(val), level(val), level(lo)>>
               [] h = 2 -> <<level(lo), level(val), level(lo)>>
               [] h = 3 -> <<level(lo), level(val), level(val)>>
               [] h = 4 -> <<level(lo), level(lo), level(val)>>
               [] h = 5 -> <<level(val), level(lo), level(val)>>

\* r/255., g/255., b/255.
normalize(c) == <<<<c[1], 255>>, <<c[2], 255>>, <<c[3], 255>>>>

CptInit ==
    /\ file_contents \in CptFiles
    /\ line_no = 1
    /\ colorModel = "unbound"
    /\ colors = << >>
    /\ end_color = << >>
    /\ cmap = << >>
    /\ cpc = "lines"

\* for line in file_contents: a line with # sets the color model and is
\* skipped, any other line gives a color and an end color
ReadLine ==
    /\ cpc = "lines"
    /\ line_no <= Len(file_contents)
    /\ LET text == file_contents[line_no]
       IN  IF text.hash
           THEN /\ colorModel' = IF text.model = "HSV" THEN "HSV" ELSE "RGB"
                /\ UNCHANGED <<colors, end_color>>
           ELSE /\ colors' = Append(colors, text.color)
                /\ end_color' = text.to
                /\ UNCHANGED colorModel
    /\ line_no' = line_no + 1
    /\ UNCHANGED <<file_contents, cmap, cpc, beside_cpt>>

\* append end colors and locations to lists: r_end is not bound when no
\* line gave a color
AppendEnd ==
    /\ cpc = "lines"
    /\ line_no > Len(file_contents)
    /\ IF end_color = << >>
       THEN /\ cpc' = "UnboundLocalError"
            /\ UNCHANGED colors
       ELSE /\ colors' = Append(colors, end_color)
            /\ cpc' = "convert"
    /\ UNCHANGED <<file_contents, line_no, colorModel, end_color, cmap,
                   beside_cpt>>

\* convert input color map to output: colorModel is not bound when no line
\* had a #
ConvertColors ==
    /\ cpc = "convert"
    /\ CASE colorModel = "HSV" ->
              /\ cmap' = [k \in 1..Len(colors) |-> hsv_to_rgb(colors[k])]
              /\ cpc' = "done"
         [] colorModel = "RGB" ->
              /\ cmap' = [k \in 1..Len(colors) |-> normalize(colors[k])]
              /\ cpc' = "done"
         [] OTHER ->
              /\ cmap' = cmap
              /\ cpc' = "UnboundLocalError"
    /\ UNCHANGED <<file_contents, line_no, colorModel, colors, end_color,
                   beside_cpt>>

CptNext ==
    \/ ReadLine
    \/ AppendEnd
    \/ ConvertColors

(***************************************************************************)
(* nasa_earthdata_nsidc_example: the transfer of a file and its checksum   *)
(***************************************************************************)
\* example file to download from NSIDC
FILE == "ILATM2_20090331_122747_smooth_nadir3seg_50pt.csv"

\* what a file can hold
Contents == {"data1", "data2"}

\* the types get_checksum calculates, and one it does not
ChecksumTypes == {"MD5", "CKSUM", "CRC32", "SHA1"}

\* hashlib.md5(file_buffer).hexdigest(): files that differ have digests
\* that differ
md5(file_buffer) == IF file_buffer = "data1" THEN "md5 of data1"
                    ELSE "md5 of data2"

\* the CKSUM hash of the file buffer and the file length, as a string
cksum(file_buffer) == IF file_buffer = "data1" THEN "cksum of data1"
                      ELSE "cksum of data2"

\* the CRC32 hash of the file buffer, as a string
crc32(file_buffer) == IF file_buffer = "data1" THEN "crc32 of data1"
                      ELSE "crc32 of data2"

\* the function ends without a return for any other type
get_checksum(file_buffer, checksum_type) ==
    CASE checksum_type = "MD5" -> md5(file_buffer)
      [] checksum_type = "CKSUM" -> cksum(file_buffer)
      [] checksum_type = "CRC32" -> crc32(file_buffer)
      [] OTHER -> None

\* the checksums a metadata file can publish
Checksums ==
    UNION { {md5(c), cksum(c), crc32(c)} : c \in Contents }

Metadata ==
    [DistributedFileName : {FILE, "ILATM2_20090331_122747.csv"},
     ChecksumType : ChecksumTypes,
     Checksum : Checksums]

SumInit ==
    /\ remote_data \in Contents
    /\ remote_xml \in Metadata
    /\ local_data = "absent"
    /\ local_hash = None
    /\ xpc = "start"

\* response = urllib2.urlopen(request): HTTPError and URLError can be thrown
OpenRequest ==
    /\ xpc = "start"
    /\ \E answered \in BOOLEAN :
          xpc' = IF answered THEN "copy" ELSE "URLError"
    /\ UNCHANGED <<sumargs, local_data, local_hash, beside_sum>>

\* shutil.copyfileobj(response, f, CHUNK): the bytes that arrive are the
\* bytes of the remote file or other bytes
CopyFile ==
    /\ xpc = "copy"
    /\ \E received \in Contents : local_data' = received
    /\ xpc' = "xml"
    /\ UNCHANGED <<sumargs, local_hash, beside_sum>>

\* read and parse remote xml file
ParseXml ==
    /\ xpc = "xml"
    /\ \E answered \in BOOLEAN :
          xpc' = IF answered THEN "filename" ELSE "URLError"
    /\ UNCHANGED <<sumargs, local_data, local_hash, beside_sum>>

\* if the DistributedFileName matches the synced filename; there is no else
CompareFilename ==
    /\ xpc = "filename"
    /\ xpc' = IF FILE = remote_xml.DistributedFileName
              THEN "checksum" ELSE "returned"
    /\ UNCHANGED <<sumargs, local_data, local_hash, beside_sum>>

\* calculate checksum of local file
LocalChecksum ==
    /\ xpc = "checksum"
    /\ local_hash' = get_checksum(local_data, remote_xml.ChecksumType)
    /\ xpc' = "compare"
    /\ UNCHANGED <<sumargs, local_data, beside_sum>>

\* compare local and remote checksums to validate data transfer
CompareChecksum ==
    /\ xpc = "compare"
    /\ xpc' = IF local_hash # remote_xml.Checksum
              THEN "Checksum verification failed" ELSE "returned"
    /\ UNCHANGED <<sumargs, local_data, local_hash, beside_sum>>

SumNext ==
    \/ OpenRequest
    \/ CopyFile
    \/ ParseXml
    \/ CompareFilename
    \/ LocalChecksum
    \/ CompareChecksum

Init ==
    /\ FetchInit /\ SyncIdle /\ ListIdle /\ DateIdle /\ ObsIdle /\ IndexIdle
    /\ RestIdle

Next == FetchNext

\* one call of a retry-driven fetch, for every retry limit, destination
\* file and pattern of attempt outcomes
Spec == Init /\ [][Next]_vars

\* a call that is running takes its next step: nothing cancels or suspends it
SpecFair == Init /\ [][Next]_vars /\ WF_vars(Next)

\* one sync run and its repetition, for every short list of remote files
SyncStart ==
    /\ FetchIdle /\ SyncInit /\ ListIdle /\ DateIdle /\ ObsIdle /\ IndexIdle
    /\ RestIdle

SpecSync == SyncStart /\ [][SyncNext]_vars

\* a sync run in series or through the pool, for every short list of
\* remote files with their own modification times
ModesStart ==
    /\ FetchIdle /\ ModesInit /\ ListIdle /\ DateIdle /\ ObsIdle /\ IndexIdle
    /\ RestIdle

SpecModes == ModesStart /\ [][SyncNext]_vars

\* the listing of one sync run, for every short request and every remote
\* that reports few files
ListStart ==
    /\ FetchIdle /\ SyncIdle /\ ListInit /\ DateIdle /\ ObsIdle /\ IndexIdle
    /\ RestIdle

SpecList == ListStart /\ [][ListNext]_vars

\* the month column of one date table, for every short sequence of month
\* indices around the special month
DateStart ==
    /\ FetchIdle /\ SyncIdle /\ ListIdle /\ DateInit /\ ObsIdle /\ IndexIdle
    /\ RestIdle

SpecDate == DateStart /\ [][DateNext]_vars

\* the row of one observation interval, for every interval of at most two
\* calendar months in the years explored
ObsStart ==
    /\ FetchIdle /\ SyncIdle /\ ListIdle /\ DateIdle /\ ObsInit /\ IndexIdle
    /\ RestIdle

SpecObs == ObsStart /\ [][ObsNext]_vars

\* the same computation on a date with any month and any day
AnyDateStart ==
    /\ FetchIdle /\ SyncIdle /\ ListIdle /\ DateIdle /\ AnyDateInit /\ IndexIdle
    /\ RestIdle

SpecAnyDate == AnyDateStart /\ [][ObsNext]_vars

\* the creation of the index of one product directory by either program,
\* for every content of the directory
IndexStart ==
    /\ FetchIdle /\ SyncIdle /\ ListIdle /\ DateIdle /\ ObsIdle /\ IndexInit
    /\ RestIdle

SpecIndex == IndexStart /\ [][IndexNext]_vars

\* one run of get_podaac_webdav, for every short secrets file
NetrcStart ==
    /\ FetchIdle /\ SyncIdle /\ ListIdle /\ DateIdle /\ ObsIdle /\ IndexIdle
    /\ NetrcInit /\ CptIdle /\ SumIdle

SpecNetrc == NetrcStart /\ [][NetrcNext]_vars

\* one call of read_cpt, for every short file of comments and colors
CptStart ==
    /\ FetchIdle /\ SyncIdle /\ ListIdle /\ DateIdle /\ ObsIdle /\ IndexIdle
    /\ NetrcIdle /\ CptInit /\ SumIdle

SpecCpt == CptStart /\ [][CptNext]_vars

\* one run of the example, for every metadata file and every transfer
SumStart ==
    /\ FetchIdle /\ SyncIdle /\ ListIdle /\ DateIdle /\ ObsIdle /\ IndexIdle
    /\ NetrcIdle /\ CptIdle /\ SumInit

SpecSum == SumStart /\ [][SumNext]_vars

(***************************************************************************)
(* Properties of one retry-driven fetch (specification Spec)               *)
(***************************************************************************)
Attempts == Len(outcomes)

NoSuccess == \A i \in 1..Attempts : outcomes[i] # "ok"

\* the loop has been left
Left == pc \in {"check", "post", "returned", "raised", "crashed"}

\* C1: if the transfer fails on its first N-1 calls and succeeds on the
\* N-th, 1 <= N <= RETRY, the fetch completes successfully having made
\* exactly N attempts and raises no error: the N-th attempt is made while
\* N <= RETRY (the loop is not left earlier without a success), a success
\* is the last attempt made, and after it the call is on its way to a
\* normal return with the counter at N-1.
C1_SucceedsOnNthAttempt ==
    /\ \A N \in 1..Attempts :
          outcomes[N] = "ok" =>
            /\ N = Attempts
            /\ N <= RETRY
            /\ retry_counter = N - 1
            /\ pc \in {"check", "post", "returned"}
    /\ (Left /\ NoSuccess /\ Attempts < RETRY) => Attempts = 0 /\ pc = "returned"

C1_Witness ==
    /\ fn = "http_pull_file"
    /\ RETRY = 3
    /\ outcomes = <<"open_fail", "copy_fail", "ok">>
    /\ pc = "returned"

\* C2: if every transfer attempt fails, the fetch raises the max-retries
\* error after exactly RETRY attempts, never after fewer and never after
\* more; and a call in which at least one attempt was made and all failed
\* ends in no other way.
C2_RaisesAfterExactlyRetry ==
    /\ pc = "raised" => Attempts = RETRY /\ NoSuccess
    /\ (NoSuccess /\ Attempts >= 1) =>
          /\ Attempts <= RETRY
          /\ pc \in {"loop", "check", "raised"}
          /\ pc = "check" => Attempts = RETRY

C2_Witness ==
    /\ pc = "raised"
    /\ RETRY = 3
    /\ outcomes = <<"open_fail", "open_fail", "open_fail">>

\* C3: when a fetch ends in retry exhaustion no partial write of the
\* destination has been performed: a destination that did not exist still
\* does not exist, one that existed still has its complete content.
C3_NoPartialWrite ==
    pc = "raised" => local.content = local0.content

\* the call returned after transferring the file
Transferred == pc = "returned" /\ ~NoSuccess

\* C5 as stated: whenever a fetch returns successfully the local file's
\* modification time is the remote's reported last-modified time and its
\* permission bits are the configured mode, the auxiliary files included.
C5_MtimeIsLastModified ==
    Transferred => local.mtime = last_modified /\ local.mode = "MODE"

\* C5 as amended: whenever a fetch returns after a transfer the local file
\* is complete, has the configured mode and has the modification time the
\* caller handed over: the remote's reported time for every granule and for
\* the GSFC mascon file, and the time stamp of the run (time.time()) for
\* the auxiliary TN-13 / TN-14 files of podaac_cumulus.
C5_MtimeIsArgument ==
    Transferred =>
        /\ local.mode = "MODE"
        /\ local.content = "complete"
        /\ site = "granule" => local.mtime = last_modified
        /\ site = "aux" => local.mtime = Stamp

C5_Witness ==
    /\ Transferred
    /\ site = "aux"
    /\ local0.content = "absent"
    /\ local.mtime = Stamp

\* C7 as stated: an authentication failure is surfaced immediately, no
\* attempt follows it and the call does not end in retry exhaustion.
C7_AuthSurfacedImmediately ==
    \A i \in 1..Attempts :
        outcomes[i] = "auth_fail" => i = Attempts /\ pc # "raised"

\* C7 as amended: an authentication failure is handled like every other
\* failed attempt. It leaves the destination as it was, the counter is
\* incremented, the next attempt is made while fewer than RETRY attempts
\* have been made, and when the RETRY-th attempt fails the call ends in the
\* max-retries error.
C7_AuthRetriedLikeAnyFailure ==
    (Attempts >= 1 /\ outcomes[Attempts] = "auth_fail") =>
        /\ retry_counter = Attempts
        /\ Attempts < RETRY => pc = "loop" /\ Retrying(retry_counter, RETRY)
        /\ Attempts = RETRY => pc \in {"loop", "check", "raised"}
        /\ Attempts <= RETRY

C7_Witness ==
    /\ Attempts = 2
    /\ outcomes[1] = "auth_fail"
    /\ outcomes[2] = "auth_fail"
    /\ pc = "raised"

(***************************************************************************)
(* Properties of a sync run (specification SpecSync)                       *)
(***************************************************************************)
\* every remote file of the list has its local copy, complete, with the
\* remote's modification time and the mode of the run
UpToDate ==
    \A i \in 1..NTasks : disk[tasks[i].lfile] = Synced(tasks[i].mtime)

Failed == {i \in 1..NTasks : wpc[i] = "failed"}

\* C4: idempotent sync. In the second of two consecutive runs against the
\* unchanged remote file set, with every local copy present with the
\* remote's modification time, no step transfers a file.
C4_SecondRunTransfersNothing ==
    [][(run = "second" /\ UpToDate) => transfers' = transfers]_vars

\* C6 as stated: if the transfer of any one file fails, the run does not go
\* on to write index.txt, finalize the log and end normally.
C6_AnyFailureIsFatal ==
    Failed # {} => ppc \notin {"index", "finalize", "done"} /\ ~index

\* C6 as amended: in series (PROCESSES = 0) a file whose transfer fails
\* aborts the run, which writes no index.txt and reaches the index only
\* with every file transferred; with a pool (PROCESSES > 0) the failure is
\* caught in the worker, the task yields None, and the run is never
\* aborted by it: the parent goes on through join to the index and the end.
\* A run aborts only on a failure in series or in the auxiliary downloads
\* of podaac_cumulus.
C6_SerialAbortsPoolGoesOn ==
    /\ (PROCESSES = 0 /\ Failed # {}) => ppc = "aborted" /\ ~index
    /\ (PROCESSES = 0 /\ ppc \in {"index", "finalize", "done"}) =>
            \A i \in 1..NTasks : wpc[i] = "returned"
    /\ (PROCESSES > 0 /\ Failed # {}) =>
            /\ ppc \in {"join", "index", "finalize", "done"}
            /\ \A i \in Failed : out[i] = "None"
    /\ ppc = "aborted" =>
            \/ PROCESSES = 0 /\ Failed # {}
            \/ /\ script = "podaac_cumulus" /\ has_aux
               /\ \A i \in 1..NTasks : wpc[i] = "idle"

C6_Witness ==
    /\ PROCESSES > 0
    /\ NTasks = 2
    /\ wpc[1] = "failed"
    /\ wpc[2] = "returned"
    /\ index
    /\ ppc = "done"

\* C8: with a pool, every write to the log is made by the parent, before
\* the pool exists or after it is closed and joined; no worker writes to
\* the log, whether its transfer succeeds or fails.
C8_OnlyParentWritesLog ==
    PROCESSES > 0 =>
        \A k \in 1..Len(log) :
            log[k].by = "parent" /\ log[k].when \in {"before", "after"}

(***************************************************************************)
(* Properties of the listing (specification SpecList)                      *)
(***************************************************************************)
PairwiseDistinct(q) == \A i, j \in 1..Len(q) : i # j => q[i] # q[j]

\* C9: in worker-pool mode the local paths of the tasks submitted to the
\* pool are pairwise distinct, whatever the remote lists
C9_LocalPathsPairwiseDistinct == lpc = "pool" => PairwiseDistinct(local_files)

\* two files go to the pool, each with a local path of its own
C9_Witness ==
    /\ lpc = "pool"
    /\ Len(local_files) = 2
    /\ PairwiseDistinct(local_files)

(***************************************************************************)
(* Properties of the month indices (specification SpecDate)                *)
(***************************************************************************)
\* the index at position t repeats the index emitted before it, at the
\* special index
RepeatsSpecial(t) ==
    /\ t \in 2..Len(adjusted)
    /\ grace_month[t] = adjusted[t - 1]
    /\ grace_month[t] = SpecialMonth

\* C10: scanning the month indices in order, an index that equals its
\* immediate predecessor at the special index 160 is incremented by one:
\* the two observations get the indices 160 then 161, in the table too
C10_SpecialMonthIncremented ==
    /\ \A t \in 1..Len(adjusted) :
          RepeatsSpecial(t) =>
              /\ adjusted[t - 1] = SpecialMonth
              /\ adjusted[t] = SpecialMonth + 1
    /\ dpc = "done" =>
          \A t \in 1..Len(rows) :
              RepeatsSpecial(t) => rows[t - 1] < rows[t]

\* a table is written for a file where the special index repeats
C10_Witness ==
    /\ dpc = "done"
    /\ \E t \in 1..Len(rows) :
          /\ RepeatsSpecial(t)
          /\ rows[t - 1] = SpecialMonth
          /\ rows[t] = SpecialMonth + 1

\* the observations are in chronological order: the month indices of
\* their middle dates do not decrease
Chronological == \A t \in 2..Len(grace_month) : grace_month[t - 1] <= grace_month[t]

\* C11: for a chronologically sorted input the month indices of the table
\* do not decrease, and where the correction was applied the index is its
\* predecessor plus one
C11_NonDecreasing ==
    (dpc = "done" /\ Chronological) =>
        \A t \in 2..Len(rows) :
            /\ rows[t - 1] <= rows[t]
            /\ RepeatsSpecial(t) => rows[t] = rows[t - 1] + 1

\* a table is written for a chronological file where the special index is
\* followed by the next index
C11_Witness ==
    /\ dpc = "done"
    /\ Chronological
    /\ \E t \in 2..Len(rows) : RepeatsSpecial(t)
    /\ \A t \in 2..Len(rows) : rows[t - 1] <= rows[t]

\* C12: the correction pass changes only an index that repeats the index
\* before it at the special index; every other index, a repeat at another
\* index included, is emitted as it is, the pass always ends, and the
\* emitted sequence has the length and the order of the input
C12_OnlySpecialRepeatChanged ==
    /\ Len(adjusted) <= Len(grace_month)
    /\ dpc \in {"header", "table", "done"} => Len(adjusted) = Len(grace_month)
    /\ \A t \in 1..Len(adjusted) :
          /\ adjusted[t] # grace_month[t] =>
                RepeatsSpecial(t) /\ adjusted[t] = grace_month[t] + 1
          /\ (t > 1 /\ grace_month[t] = grace_month[t - 1]
                /\ grace_month[t] # SpecialMonth) => adjusted[t] = grace_month[t]
    /\ dpc = "done" => rows = adjusted

\* a table is written for a file with a repeat at an index that is not the
\* special one, and with a repeat at the special index
C12_Witness ==
    /\ dpc = "done"
    /\ \E t \in 2..Len(rows) :
          /\ grace_month[t] = grace_month[t - 1]
          /\ grace_month[t] # SpecialMonth
          /\ rows[t] = grace_month[t]
    /\ \E t \in 2..Len(rows) : RepeatsSpecial(t) /\ rows[t] # grace_month[t]

\* C13: before correction the month index of an observation is
\* 12*(year - 2002) + month of the middle date of its interval, whatever the
\* months of its first and last date; it is a positive integer, 1 for
\* January 2002 and 4 for April 2002
C13_MonthIndexOfMiddleDate ==
    (opc \notin {"idle", "dates", "month", "IndexError"}) =>
        /\ mon = 12 * (YY - 2002) + MM
        /\ mon \in Nat \ {0}
        /\ (YY = 2002 /\ MM = 1) => mon = 1
        /\ (YY = 2002 /\ MM = 4) => mon = 4

\* an interval from March to April 2002 with its middle date in April has
\* index 4, which is not the index of its first date
C13_Witness ==
    /\ opc = "cyclic"
    /\ start_yr = 2002 /\ M1 = 3
    /\ YY = 2002 /\ MM = 4
    /\ mon = 4

\* C14: encoding a calendar year >= 2002 and a month of 1..12 to the month
\* index and decoding the index gives the same year and month back, and
\* encoding the decoded pair gives the same index back
C14_MonthIndexRoundTrip ==
    /\ \A y \in Years : \A m \in 1..12 :
            /\ year_of_month(calendar_to_grace(y, m)) = y
            /\ month_of_month(calendar_to_grace(y, m)) = m
    /\ (opc = "named") =>
            /\ calendar_year = YY
            /\ calendar_month = MM
            /\ 12 * (calendar_year - 2002) + calendar_month = mon

\* April 2002 is encoded as index 4 and index 4 is decoded as April 2002
C14_Witness ==
    /\ opc = "named"
    /\ YY = 2002 /\ MM = 4
    /\ mon = 4
    /\ calendar_year = 2002 /\ calendar_month = 4

\* the rows that carry a total: the total of the interval has been computed
Totalled == opc \in {"row", "named", "unnamed"}

\* the day counts of every year from 2002 up to but not including Y
RECURSIVE DaysBefore(_)
DaysBefore(Y) ==
    IF Y <= 2002 THEN 0 ELSE DaysBefore(Y - 1) + Sum(calendar_days(Y - 1))

C16_YearCrossing ==
    (opc \in {"count", "mean"} \/ Totalled) =>
        /\ (end_yr = start_yr) => end_cyclic = end_day
        /\ (end_yr = start_yr + 1) =>
                end_cyclic = end_day + Sum(calendar_days(start_yr))

\* an interval from December 2003 to 31 January 2004: the end day 30 of the
\* leap year 2004 follows the 365 days of 2003
C16_Witness ==
    /\ opc = "count"
    /\ start_yr = 2003 /\ end_yr = 2004
    /\ end_day = 30
    /\ dpy = 365
    /\ end_cyclic = 395

\* the lengths of the months of a year, February with 29 days when the
\* year is divisible by 4 and with 28 days otherwise
MonthLength(year, m) ==
    IF m = 2 THEN (IF year % 4 = 0 THEN 29 ELSE 28)
    ELSE IF m \in {4, 6, 9, 11} THEN 30 ELSE 31

\* the lengths of the months 1..M-1 of a year together
MonthsBefore(year, M) == Sum([m \in 1..(M - 1) |-> MonthLength(year, m)])

\* the days of the year of the interval have been computed
DaysComputed == opc \in {"month", "cyclic", "count", "mean"} \/ Totalled

\* C17: the day of the year counts from 0: for a month M of 1..12 and a
\* day D of that month it is (D - 1) plus the lengths of the months 1..M-1,
\* February taken as 29 days when the year is divisible by 4 and as 28
\* otherwise; January 1 gives 0; the start day is computed with the table
\* of the start year and the end day with the table of the end year
C17_DayOfYearZeroBased ==
    (DaysComputed /\ M1 \in 1..12 /\ M2 \in 1..12
        /\ D1 \in 1..MonthLength(start_yr, M1)
        /\ D2 \in 1..MonthLength(end_yr, M2)) =>
        /\ start_day = (D1 - 1) + MonthsBefore(start_yr, M1)
        /\ end_day = (D2 - 1) + MonthsBefore(end_yr, M2)
        /\ (M1 = 1 /\ D1 = 1) => start_day = 0
        /\ (M2 = 1 /\ D2 = 1) => end_day = 0

\* 1 March of 2100, a year divisible by 4, is day 60 and 1 April, the last
\* day of the interval, is day 91
C17_Witness ==
    /\ DaysComputed
    /\ start_yr = 2100 /\ M1 = 3 /\ D1 = 1
    /\ end_yr = 2100 /\ M2 = 4 /\ D2 = 1
    /\ start_day = 60
    /\ end_day = 91

DataRange(year) == year >= 2002 /\ year < 2100

\* the table sums of every year from 2002 up to but not including Y
RECURSIVE TableDaysBefore(_)
TableDaysBefore(Y) ==
    IF Y <= 2002 THEN 0
    ELSE TableDaysBefore(Y - 1) + Sum(days_per_month(Y - 1))

\* C19: the table of days per month selected for a year sums to 366 when
\* the year is divisible by 4 and to 365 otherwise; for the years of the
\* data range the number of days of the year used for intervals that
\* cross years and the days counted for the prior years agree with it
C19_YearLengths ==
    /\ \A y \in Years :
            /\ Sum(days_per_month(y)) = (IF y % 4 = 0 THEN 366 ELSE 365)
            /\ DataRange(y) => Sum(calendar_days(y)) = Sum(days_per_month(y))
    /\ ((opc \in {"count", "mean"} \/ Totalled) /\ DataRange(start_yr)) =>
            dpy = Sum(days_per_month(start_yr))
    /\ ((opc = "mean" \/ Totalled) /\ DataRange(start_yr)) =>
            count = TableDaysBefore(start_yr)

\* an interval that starts in the leap year 2004: the year has the 366 days
\* of its table and the two years before it have 365 each
C19_Witness ==
    /\ Totalled
    /\ start_yr = 2004
    /\ Sum(days_per_month(start_yr)) = 366
    /\ dpy = 366
    /\ count = 730

\* the lines of the index are in sorted order
IndexSorted ==
    \A i \in 1..Len(index_txt) : \A j \in 1..Len(index_txt) :
        i < j => Before(index_txt[i], index_txt[j])

\* no two lines of the index are file names of the same date
OneFilePerDate ==
    \A i \in 1..Len(index_txt) : \A j \in 1..Len(index_txt) :
        i # j => index_txt[i].date # index_txt[j].date

\* C20: the index written after a sync run, by podaac_grace_sync as well as
\* by podaac_cumulus, lists the file names of the product in sorted order
\* and holds one file name for each date
C20_IndexSortedOneFilePerDate ==
    (ipc = "done") => IndexSorted /\ OneFilePerDate

\* podaac_grace_sync has written an index of the GFZ RL05 directory that
\* lists the unconstrained and the regularized field of one date
C20_Witness ==
    /\ ipc = "done"
    /\ iscript = "podaac_grace_sync"
    /\ product = <<"GFZ", "RL05">>
    /\ \E i \in 1..Len(index_txt) : \E j \in 1..Len(index_txt) :
            /\ index_txt[i].date = index_txt[j].date
            /\ index_txt[i].solution = "G---"
            /\ index_txt[j].solution = "GK2-"

\* the index podaac_cumulus writes is sorted and holds one file per date,
\* and the index of either program is sorted
CumulusIndexDeduplicated ==
    (ipc = "done") =>
        /\ IndexSorted
        /\ (iscript = "podaac_cumulus") => OneFilePerDate

\* the call has ended: it returned, raised TimeoutError, or ended with
\* another exception
Ended == pc \in {"returned", "raised", "crashed"}

\* no transfer attempt beyond the retry limit has been made
AttemptsWithinLimit == \A i \in 1..Len(outcomes) : i <= RETRY

\* every call of a retry-driven fetch ends, and at no point has it made an
\* attempt beyond its retry limit
FetchTerminates == <>Ended /\ []AttemptsWithinLimit

\* C24: for every retry limit and every pattern of attempt failures the
\* fetch ends in success or in retry exhaustion, and at no point has it
\* made more transfer attempts than the retry limit
C24_EndsInSuccessOrExhaustion ==
    <>(pc \in {"returned", "raised"}) /\ []AttemptsWithinLimit

\* http_pull_file with a negative retry limit and no local file has ended
\* with the exception of os.stat, without a single attempt
C24_Witness ==
    /\ pc = "crashed"
    /\ fn \in {"http_pull_file", "http_pull_file_cumulus"}
    /\ RETRY < 0
    /\ outcomes = << >>
    /\ local = Absent

\* C25: when the GSFC mascon file is present at its local path,
\* get_GSFC_grace_mascons returns without a transfer attempt and leaves the
\* content, the modification time and the permissions of the file as they
\* were, for every retry limit
C25_SkipIfLocalExists ==
    (fn = "get_GSFC_grace_mascons" /\ local0.content # "absent") =>
        /\ pc \in {"start", "returned"}
        /\ outcomes = << >>
        /\ local = local0

\* the call has returned for a file whose time is not the one the remote
\* reports, with a retry limit of 0
C25_Witness ==
    /\ fn = "get_GSFC_grace_mascons"
    /\ pc = "returned"
    /\ RETRY = 0
    /\ local0 = Synced("lm2")
    /\ last_modified = "lm1"
    /\ local = local0
    /\ outcomes = << >>

\* C26: the fetch returns normally only if an attempt of the call has
\* succeeded or, for get_GSFC_grace_mascons, the local file was there
\* before the call; with a retry limit of 0 or less it never returns
\* normally without having transferred the file
C26_ReturnsOnlyAfterTransfer ==
    (pc = "returned") =>
        \/ "ok" \in Range(outcomes)
        \/ fn = "get_GSFC_grace_mascons" /\ local0.content # "absent"

\* get_GSFC_grace_mascons has returned normally with a negative retry
\* limit, no attempt and no local file
C26_Witness ==
    /\ pc = "returned"
    /\ fn = "get_GSFC_grace_mascons"
    /\ RETRY < 0
    /\ outcomes = << >>
    /\ local0 = Absent
    /\ local = Absent

\* with a retry limit of 0 or more a normal return follows a transfer or
\* the presence of the GSFC mascon file
ReturnsAfterTransferFromZero ==
    (RETRY >= 0) => C26_ReturnsOnlyAfterTransfer

\* <host>/drive/files/allData/<mission>/L2/<center>/<release>
ReleaseDir(mission, pr, release) == MissionPath(mission) \o <<"L2", pr, release>>

\* C27: for every center and every release of the request the remote
\* directory podaac_grace_sync lists is
\* <host>/drive/files/allData/<mission>/L2/<center>/<release>, followed by
\* the year directory for GRACE-FO, whatever releases and years were
\* processed before in the run; after a GRACE-FO year is processed the path
\* no longer contains that year
C27_ListsTheReleaseDirectory ==
    [][/\ (lpc = "grace" /\ lpc' # "raised") =>
            PATH' = ReleaseDir("grace", PROC[pr_i],
                               drel_str(PROC[pr_i], DREL[rl_i]))
       /\ (lpc = "gracefo" /\ valid_gracefo_releases # << >>
                /\ lpc' # "raised") =>
            PATH' = ReleaseDir("gracefo", PROC[pr_i],
                               valid_gracefo_releases[rl_i])
       /\ (lpc = "year" /\ lpc' # "raised") =>
            /\ Append(PATH, Head(years)) =
                  Append(ReleaseDir("gracefo", PROC[pr_i],
                                    valid_gracefo_releases[rl_i]), Head(years))
            /\ Head(years) \notin Range(PATH')]_vars

\* the second release of a center has been listed at the directory of the
\* first release followed by L2/<center>/<release> once more
C27_Witness ==
    /\ lscript = "podaac_grace_sync"
    /\ Len(DREL) = 2
    /\ DREL[1] # DREL[2]
    /\ PATH = ReleaseDir("grace", PROC[1], drel_str(PROC[1], DREL[1]))
                 \o <<"L2", PROC[1], drel_str(PROC[1], DREL[2])>>

\* the directory listed for the first release of each center is the
\* release directory, and the path of a year that was processed no longer
\* holds the year
FirstReleaseDirectory ==
    [][/\ (lpc = "grace" /\ lpc' # "raised" /\ rl_i = 1) =>
            PATH' = ReleaseDir("grace", PROC[pr_i],
                               drel_str(PROC[pr_i], DREL[rl_i]))
       /\ (lpc = "gracefo" /\ valid_gracefo_releases # << >>
                /\ lpc' # "raised" /\ rl_i = 1) =>
            PATH' = ReleaseDir("gracefo", PROC[pr_i],
                               valid_gracefo_releases[rl_i])
       /\ (lpc = "year" /\ lpc' # "raised") =>
            Head(years) \notin Range(PATH')]_vars

\* the run has ended and every transfer of it succeeded
AllTransferred ==
    /\ ppc = "done"
    /\ \A i \in 1..NTasks : wpc[i] = "returned"

\* the files a run in series leaves: every local path of the list holds
\* the complete file with the mode of the run and the modification time of
\* the last triple of the list that names the path
LikeSerialFiles ==
    \A i \in 1..NTasks :
        (\A j \in (i + 1)..NTasks : tasks[j].lfile # tasks[i].lfile) =>
            disk[tasks[i].lfile] = Synced(tasks[i].mtime)

\* the log a run in series leaves: the header, then the output of every
\* file in the order of the list, all written by the parent
LikeSerialLog ==
    /\ Len(log) = (IF LOG THEN 1 + NTasks ELSE 0)
    /\ \A k \in 1..Len(log) :
          /\ log[k].by = "parent"
          /\ log[k].what = (IF k = 1 THEN "header" ELSE out[k - 1])
    /\ \A i \in 1..NTasks : out[i] = "output"

\* C28: when every transfer succeeds, a run through the pool ends with the
\* same local files, modification times and modes and the same sequence of
\* log entries as a run in series on the same list of triples
C28_PoolEndsLikeSerial ==
    AllTransferred => LikeSerialFiles /\ LikeSerialLog

\* two workers have written the same local path and the file is left with
\* the modification time of the first triple, not of the last
C28_Witness ==
    /\ AllTransferred
    /\ PROCESSES = 2
    /\ NTasks = 2
    /\ tasks[1].lfile = tasks[2].lfile
    /\ tasks[1].mtime = "lm1" /\ tasks[2].mtime = "lm2"
    /\ disk[tasks[2].lfile] = Synced("lm1")

\* the two modes end alike on every list whose local paths are pairwise
\* distinct, and for every list when the pool has a single worker
PoolEndsLikeSerialOnDistinctPaths ==
    (AllTransferred
        /\ (PROCESSES <= 1
             \/ \A i \in 1..NTasks : \A j \in 1..NTasks :
                    i # j => tasks[i].lfile # tasks[j].lfile)) =>
        LikeSerialFiles /\ LikeSerialLog

\* one digit for each of the three places of a month index below 1000
ThreeDigits(n) == <<n \div 100, (n \div 10) % 10, n % 10>>

\* C22: the date table is one header line followed by one line for each
\* observation interval of the input, in the order of the input, each with
\* the columns decimal mid-date, month index as three digits, start year,
\* start day of the year, end year, end day of the year and total days;
\* the values of each observation are computed once, in a single pass
C22_HeaderThenOneRowPerObservation ==
    /\ (dpc = "done") =>
          /\ Len(table) = 1 + Len(grace_month)
          /\ table[1].line = "header"
          /\ \A t \in 1..Len(grace_month) :
                /\ table[t + 1].line = "row"
                /\ table[t + 1].t = t
                /\ table[t + 1].mon = ThreeDigits(adjusted[t])
                /\ table[t + 1].columns =
                      <<"tdec", "mon", "start_yr", "start_day", "end_yr",
                        "end_day", "tot_days">>
    /\ (dpc = "table") =>
          /\ Len(table) = 1 + Len(rows)
          /\ \A k \in 2..Len(table) : table[k].t = k - 1

\* a table of a header and three rows, the rows of three observations of
\* different months in the order of the input
C22_Witness ==
    /\ dpc = "done"
    /\ Len(grace_month) = 3
    /\ grace_month[1] > grace_month[2]
    /\ Len(table) = 4
    /\ table[1].line = "header"
    /\ \A t \in 1..3 : table[t + 1].mon = ThreeDigits(grace_month[t])

\* C29: no two rows of the date table carry the same month index, for any
\* input sequence of observation intervals
C29_NoTwoRowsOfOneMonth == PairwiseDistinct(rows)

\* the table of two observations whose middle dates are in one month other
\* than the special month carries the index of that month twice
C29_Witness ==
    /\ dpc = "done"
    /\ grace_month = <<SpecialMonth - 1, SpecialMonth - 1>>
    /\ rows = <<SpecialMonth - 1, SpecialMonth - 1>>

(***************************************************************************)
(* Properties of the secrets file (specification SpecNetrc)                *)
(***************************************************************************)
\* the lines of the file before the run are the first lines of the file
PreviousContentIsPrefix ==
    /\ Len(NETRC0.lines) <= Len(NETRC.lines)
    /\ SubSeq(NETRC.lines, 1, Len(NETRC0.lines)) = NETRC0.lines

CommentHeader ==
    { k \in 1..Len(file_contents) :
          \A n \in 1..k : file_contents[n].hash }

HeaderNamesHSV == \E k \in CommentHeader : file_contents[k].model = "HSV"

FromHSV == cmap = [k \in 1..Len(colors) |-> hsv_to_rgb(colors[k])]

FromRGB == cmap = [k \in 1..Len(colors) |-> normalize(colors[k])]

\* C23: the colors of a file whose header has a COLOR_MODEL line naming HSV
\* are converted from HSV, and the colors of every other file are divided
\* by 255, whatever other comment lines the header has and in any order
C23_ColorModelOfHeader ==
    cpc = "done" => IF HeaderNamesHSV THEN FromHSV ELSE FromRGB

\* a header that names HSV and then has another comment: read as RGB
C23_Witness ==
    /\ cpc = "done"
    /\ Len(file_contents) = 3
    /\ file_contents[1] = comment_line("HSV")
    /\ file_contents[2] = comment_line("")
    /\ ~file_contents[3].hash
    /\ FromRGB

\* the color model is the one of the last commented line of the file
LastCommentDecides ==
    cpc = "done" =>
        \E k \in 1..Len(file_contents) :
            /\ file_contents[k].hash
            /\ \A n \in (k + 1)..Len(file_contents) : ~file_contents[n].hash
            /\ IF file_contents[k].model = "HSV" THEN FromHSV ELSE FromRGB

\* a file with colors and no commented line is not read at all
NoCommentNoColorModel ==
    (cpc = "UnboundLocalError" /\ colors # << >>) <=>
        (cpc \notin {"lines", "convert"} /\ file_contents # << >>
            /\ \A k \in 1..Len(file_contents) : ~file_contents[k].hash)

(***************************************************************************)
(* Properties of the validated transfer (specification SpecSum)            *)
(***************************************************************************)
\* the checksum of the local file is the one the metadata publishes for it
ChecksumPublished ==
    /\ remote_xml.DistributedFileName = FILE
    /\ get_checksum(local_data, remote_xml.ChecksumType) = remote_xml.Checksum

\* C30: the example returns normally after the download only if the checksum
\* of the local file equals the one published in the remote metadata; with
\* another hash, metadata naming another file or an unsupported checksum
\* type it raises 'Checksum verification failed'
C30_ReturnsOnlyIfChecksumMatches ==
    xpc = "returned" => ChecksumPublished

\* bytes that are not those of the remote file are accepted, because the
\* metadata names another file
C30_Witness ==
    /\ xpc = "returned"
    /\ remote_xml.DistributedFileName # FILE
    /\ local_data # remote_data
    /\ local_hash = None

\* with metadata that names the file, the example returns normally only if
\* the checksums are equal, and an unsupported type is refused
MatchingNameIsValidated ==
    /\ (xpc = "returned" /\ remote_xml.DistributedFileName = FILE)
          => (local_hash = remote_xml.Checksum /\ ChecksumPublished)
    /\ (xpc = "compare" /\ remote_xml.ChecksumType = "SHA1")
          => local_hash # remote_xml.Checksum

====
